---- MODULE Spec2Model ----
(***************************************************************************)
(* A model of the MOEMS question-answering agent: the keyword router of    *)
(* src/src/agent.py over the knowledge base of src/data/knowledge_base.py, *)
(* the two-phase query pipeline, and the two evaluators of                 *)
(* src/src/evaluation.py.                                                  *)
(*                                                                         *)
(* Texts are TLA+ strings; str.lower() and the `in` operator of Python are *)
(* computed character by character (LowerStr, Contains).  Python lists     *)
(* are objects on a heap (lists) named by references, so that two names    *)
(* for one list are visible as such.  Texts are ASCII.                     *)
(***************************************************************************)
EXTENDS Integers, Sequences, FiniteSets, TLC

VARIABLES
    client,            \* self.client is set (LANGCHAIN_API_KEY configured)
    knowledge_base,    \* self.knowledge_base: key -> record
    lists,             \* the heap of list objects: reference -> sequence of strings
    pc,                \* position of the running query call
    question,          \* argument of the running query call
    retrieval_result,  \* local of query: what _retrieve returned
    answer,            \* local of query: what _generate returned
    envelope,          \* the dictionary last returned by query, held by the caller
    last,              \* how the last operation ended: "none", "returned", "raised"
    log,               \* history: what each completed query returned
    run,               \* the run last given to an evaluator: its outputs
    example,           \* the example last given to an evaluator
    evaluation,        \* the dictionary that evaluator returned
    trace,             \* the calls @traceable sees in the running query, in order
    threads,           \* concurrent callers: thread -> its invocation and locals
    service,           \* the tracing service: its dataset named DATASET_NAME, if any
    created,           \* history: what each create_evaluation_dataset call returned
    harness,           \* the running run_evaluations call: position and locals
    returned,          \* what run_evaluations last returned
    session            \* run_interactive_mode: position, query_count, inputs so far

vars == <<client, knowledge_base, lists, pc, question, retrieval_result,
          answer, envelope, last, log, run, example, evaluation, trace,
          threads, service, created, harness, returned, session>>

\* the state of the two scripts, left alone by the agent and the evaluators
scripts == <<service, created, harness, returned, session>>

\* An optional value is a sequence of at most one element.
None == <<>>
Some(x) == <<x>>
KeyError == "KeyError"

----------------------------------------------------------------------------
(* Strings *)

UpperCase == <<"A","B","C","D","E","F","G","H","I","J","K","L","M",
               "N","O","P","Q","R","S","T","U","V","W","X","Y","Z">>
LowerCase == <<"a","b","c","d","e","f","g","h","i","j","k","l","m",
               "n","o","p","q","r","s","t","u","v","w","x","y","z">>

UpperSet == {UpperCase[i] : i \in 1..26}
LowerOf == [c \in UpperSet |-> LowerCase[CHOOSE i \in 1..26 : UpperCase[i] = c]]

LowerChar(c) == IF c \in UpperSet THEN LowerOf[c] ELSE c

\* characters i..j of s, each lowercased
RECURSIVE LowerRange(_, _, _)
LowerRange(s, i, j) ==
    IF i > j THEN ""
    ELSE IF i = j THEN LowerChar(SubSeq(s, i, i))
    ELSE LET m == (i + j) \div 2
         IN  LowerRange(s, i, m) \o LowerRange(s, m + 1, j)

\* str.lower()
LowerStr(s) == LowerRange(s, 1, Len(s))

\* p in s
Contains(s, p) ==
    \E i \in 1..(Len(s) - Len(p) + 1) : SubSeq(s, i, i + Len(p) - 1) = p

Min(S) == CHOOSE x \in S : \A y \in S : x <= y

----------------------------------------------------------------------------
(* The knowledge base *)

MockDocument(content, source, topic) ==
    [page_content |-> content, metadata |-> [source |-> source, topic |-> topic]]

Keys == <<"what is moems", "structure", "participate", "scored", "calculator",
          "example", "strategies", "time", "3rd grader">>

KB_answer ==
    [k \in {Keys[i] : i \in 1..Len(Keys)} |->
       CASE k = "what is moems" -> "MOEMS stands for Mathematical Olympiads for Elementary and Middle Schools. It is a mathematics competition designed for students in grades 4-8, providing an engaging way for students to develop problem-solving skills through challenging mathematical problems."
         [] k = "structure" -> "Each MOEMS contest consists of exactly 5 problems. Students have 30 minutes total to complete all 5 problems. Calculators are strictly prohibited during the contest, emphasizing mental math and problem-solving skills."
         [] k = "participate" -> "Students in grades 4 through 8 can participate in MOEMS. This includes both elementary school students (grades 4-5) and middle school students (grades 6-8). The competition is appropriate for students aged approximately 9-14 years old."
         [] k = "scored" -> "Each problem in a MOEMS contest is worth 1 point. The maximum score for a single contest is 5 points (one for each problem). Teams compete based on cumulative scores across multiple contests throughout the year."
         [] k = "calculator" -> "No, calculators are not allowed in MOEMS contests. Calculators are strictly prohibited. The competition emphasizes mental math and problem-solving skills without computational aids."
         [] k = "example" -> "Here's a sample MOEMS algebra problem: If 3x + 7 = 22, what is the value of x? Solution: x = 5. To solve, subtract 7 from both sides to get 3x = 15, then divide by 3 to get x = 5. This type of problem tests students' ability to isolate variables and perform basic algebraic operations."
         [] k = "strategies" -> "Given the 30-minute time limit for 5 problems, students have an average of 6 minutes per problem. Recommended strategy: (1) Quickly read all 5 problems first (2 minutes), (2) Start with problems that seem easiest (10 minutes for 2-3 problems), (3) Work on medium difficulty problems next (10 minutes), (4) Attempt challenging problems last (8 minutes). Time management is crucial for success in MOEMS competitions."
         [] k = "time" -> "Students have 30 minutes total to complete all 5 problems in a MOEMS contest. This works out to an average of 6 minutes per problem, though students are free to allocate their time as they see fit across the problems."
         [] k = "3rd grader" -> "MOEMS is officially designed for grades 4-8. While the standard eligibility is grades 4-8, exceptional cases such as an advanced 3rd grader may be handled on a case-by-case basis by contacting MOEMS organizers directly. The competition content is generally geared toward the cognitive development of students in the 4-8 grade range."]

KB_sources ==
    [k \in {Keys[i] : i \in 1..Len(Keys)} |->
       CASE k = "what is moems" -> <<"moems_overview", "moems_introduction">>
         [] k = "structure" -> <<"moems_structure", "moems_rules">>
         [] k = "participate" -> <<"moems_eligibility">>
         [] k = "scored" -> <<"moems_scoring">>
         [] k = "calculator" -> <<"moems_rules">>
         [] k = "example" -> <<"moems_examples">>
         [] k = "strategies" -> <<"moems_strategies">>
         [] k = "time" -> <<"moems_structure">>
         [] k = "3rd grader" -> <<"moems_eligibility", "moems_eligibility_exceptions">>]

KB_retrieved_docs ==
    [k \in {Keys[i] : i \in 1..Len(Keys)} |->
       CASE k = "what is moems" ->
              << MockDocument("MOEMS stands for Mathematical Olympiads for Elementary and Middle Schools. It is a mathematics competition designed for students in grades 4-8.",
                              "moems_overview", "introduction"),
                 MockDocument("MOEMS provides an engaging way for students to develop problem-solving skills through challenging mathematical problems.",
                              "moems_introduction", "introduction") >>
         [] k = "structure" ->
              << MockDocument("Each MOEMS contest consists of exactly 5 problems. Students have 30 minutes total to complete all 5 problems.",
                              "moems_structure", "format"),
                 MockDocument("Calculators are strictly prohibited during MOEMS contests, emphasizing mental math and problem-solving skills.",
                              "moems_rules", "equipment") >>
         [] k = "participate" ->
              << MockDocument("Students in grades 4 through 8 can participate in MOEMS. This includes both elementary and middle school students (grades 4-5 for elementary, 6-8 for middle school). Appropriate for ages 9-14.",
                              "moems_eligibility", "participation") >>
         [] k = "scored" ->
              << MockDocument("Each problem is worth 1 point. Maximum score per contest is 5 points. Teams compete based on cumulative scores across multiple contests.",
                              "moems_scoring", "scoring") >>
         [] k = "calculator" ->
              << MockDocument("Calculators are strictly prohibited in MOEMS contests. The competition emphasizes mental math and problem-solving skills without computational aids.",
                              "moems_rules", "equipment") >>
         [] k = "example" ->
              << MockDocument("Sample Problem: If 3x + 7 = 22, what is x? Solution: Subtract 7 from both sides: 3x = 15, then divide by 3 to get x = 5. Tests variable isolation and basic algebra.",
                              "moems_examples", "problems") >>
         [] k = "strategies" ->
              << MockDocument("Time management strategy: Average 6 minutes per problem. (1) Read all problems first (2 min), (2) Start with easiest (10 min), (3) Work on medium difficulty (10 min), (4) Attempt hardest last (8 min).",
                              "moems_strategies", "strategy") >>
         [] k = "time" ->
              << MockDocument("30 minutes total for all 5 problems. Average of 6 minutes per problem, though time can be allocated as needed.",
                              "moems_structure", "format") >>
         [] k = "3rd grader" ->
              << MockDocument("MOEMS is designed for grades 4-8.",
                              "moems_eligibility", "participation"),
                 MockDocument("Standard eligibility is grades 4-8. Exceptional cases such as advanced 3rd graders may be handled case-by-case by contacting organizers. Content is geared toward 4-8 grade cognitive development.",
                              "moems_eligibility_exceptions", "participation") >>]

\* The list object holding the sources of the i-th record is reference i.
KB_ref(k) == CHOOSE i \in 1..Len(Keys) : Keys[i] = k

\* KNOWLEDGE_BASE as built at import: records whose "sources" is a reference
\* to a list object of the heap KNOWLEDGE_BASE_lists.
KNOWLEDGE_BASE ==
    [k \in {Keys[i] : i \in 1..Len(Keys)} |->
       [answer |-> KB_answer[k],
        sources |-> KB_ref(k),
        retrieved_docs |-> KB_retrieved_docs[k]]]

KNOWLEDGE_BASE_lists == [i \in 1..Len(Keys) |-> KB_sources[Keys[i]]]

----------------------------------------------------------------------------
(* The heap of list objects *)

\* a reference no list object of h has
NewRef(h) == Min({r \in 1..(Cardinality(DOMAIN h) + 1) : r \notin DOMAIN h})

\* h after allocating list object r with value v
Alloc(h, r, v) == [x \in DOMAIN h \cup {r} |-> IF x = r THEN v ELSE h[x]]

\* the list objects the knowledge base names
KBRefs(kb) == {kb[k].sources : k \in DOMAIN kb}

\* h without the list objects nothing in roots names
Collect(h, roots) == [x \in DOMAIN h \cap roots |-> h[x]]

----------------------------------------------------------------------------
(* MOEMSAgent *)

FallbackAnswer == "Based on the available MOEMS documentation, I can tell you that MOEMS is a mathematics competition for grades 4-8 students. Could you be more specific about what aspect you'd like to know? Topics include: structure, eligibility, scoring, rules, strategies, and examples."

FallbackDocs ==
    << MockDocument("MOEMS general information. Competition for grades 4-8 students.",
                    "moems_general", "general") >>

\* self.knowledge_base[k]: the record, or KeyError when the key is missing
Lookup(kb, h, k) ==
    IF k \in DOMAIN kb THEN [raised |-> FALSE, result |-> kb[k], lists |-> h]
    ELSE [raised |-> TRUE, result |-> KeyError, lists |-> h]

\* mutant: the default response is the general record of the knowledge base
DefaultResponse_general_record(h) ==
    [raised |-> FALSE, result |-> KNOWLEDGE_BASE["what is moems"], lists |-> h]

\* mutant: the default response carries no document
DefaultResponse_no_docs(h) ==
    LET r == NewRef(h)
    IN  [raised |-> FALSE,
         result |-> [answer |-> FallbackAnswer,
                     sources |-> r,
                     retrieved_docs |-> <<>>],
         lists |-> Alloc(h, r, <<"moems_general">>)]

\* The else branch: a new record, with a new list object for its sources.
DefaultResponse(h) ==
    LET r == NewRef(h)
    IN  [raised |-> FALSE,
         result |-> [answer |-> FallbackAnswer,
                     sources |-> r,
                     retrieved_docs |-> FallbackDocs],
         lists |-> Alloc(h, r, <<"moems_general">>)]

\* The rule table as the specification states it (section 4.1): the phrases
\* of rule i, and the key of the record rule i names.
RulePhrases ==
    << {"what is moems", "what's moems"},
       {"structure", "format"},
       {"participate", "who can", "eligib"},
       {"scor", "point"},
       {"calculator"},
       {"example", "sample problem"},
       {"strateg", "time management"},
       {"time", "how long", "minutes"},
       {"3rd grade", "third grade"} >>

RuleKey == Keys

\* the rules whose phrase is a substring of the lowercased question
FiringRules(q) ==
    LET ql == LowerStr(q)
    IN  {i \in 1..Len(RulePhrases) : \E p \in RulePhrases[i] : Contains(ql, p)}

\* A router that tries the rules in the given order, rule i testing
\* phrases[i]: the router's chain with its branches reordered or edited.
RuleChain(kb, h, q, order, phrases) ==
    LET ql == LowerStr(q)
        fires(i) == \E p \in phrases[i] : Contains(ql, p)
        hits == {n \in 1..Len(order) : fires(order[n])}
    IN  IF hits = {} THEN DefaultResponse(h)
        ELSE Lookup(kb, h, RuleKey[order[Min(hits)]])

\* mutant: the scoring branch is tested before the structure branch
find_best_match_scored_first(kb, h, q) ==
    RuleChain(kb, h, q, <<1, 4, 2, 3, 5, 6, 7, 8, 9>>, RulePhrases)

\* mutant: the calculator branch is tested last
find_best_match_calculator_last(kb, h, q) ==
    RuleChain(kb, h, q, <<1, 2, 3, 4, 6, 7, 8, 9, 5>>, RulePhrases)

\* mutant: the second branch tests "format" only
find_best_match_format_only(kb, h, q) ==
    RuleChain(kb, h, q, <<1, 2, 3, 4, 5, 6, 7, 8, 9>>,
              [RulePhrases EXCEPT ![2] = {"format"}])

\* mutant: the first branch returns the record of the second (a pasted key)
find_best_match_pasted_key(kb, h, q) ==
    IF 1 \in FiringRules(q) THEN Lookup(kb, h, "structure")
    ELSE RuleChain(kb, h, q, <<1, 2, 3, 4, 5, 6, 7, 8, 9>>, RulePhrases)

\* MOEMSAgent._find_best_match: the record returned and the heap after the call
find_best_match(kb, h, q) ==
    LET question_lower == LowerStr(q)
        has(p) == Contains(question_lower, p)
    IN  IF has("what is moems") \/ has("what's moems")
          THEN Lookup(kb, h, "what is moems")
        ELSE IF has("structure") \/ has("format")
          THEN Lookup(kb, h, "structure")
        ELSE IF has("participate") \/ has("who can") \/ has("eligib")
          THEN Lookup(kb, h, "participate")
        ELSE IF has("scor") \/ has("point")
          THEN Lookup(kb, h, "scored")
        ELSE IF has("calculator")
          THEN Lookup(kb, h, "calculator")
        ELSE IF has("example") \/ has("sample problem")
          THEN Lookup(kb, h, "example")
        ELSE IF has("strateg") \/ has("time management")
          THEN Lookup(kb, h, "strategies")
        ELSE IF has("time") \/ has("how long") \/ has("minutes")
          THEN Lookup(kb, h, "time")
        ELSE IF has("3rd grade") \/ has("third grade")
          THEN Lookup(kb, h, "3rd grader")
        ELSE DefaultResponse(h)

\* mutant: _retrieve tags the sources list of the matched record in place
retrieve_tagging_sources(kb, h, q) ==
    LET m == find_best_match(kb, h, q)
    IN  IF m.raised THEN m
        ELSE [raised |-> FALSE,
              result |-> [sources |-> m.result.sources,
                          retrieved_docs |-> m.result.retrieved_docs],
              lists |-> [m.lists EXCEPT ![m.result.sources] = Append(@, "retrieved")]]

\* MOEMSAgent._retrieve: the dictionary returned (or KeyError) and the heap
retrieve(kb, h, q) ==
    LET m == find_best_match(kb, h, q)
    IN  IF m.raised THEN m
        ELSE [raised |-> FALSE,
              result |-> [sources |-> m.result.sources,
                          retrieved_docs |-> m.result.retrieved_docs],
              lists |-> m.lists]

\* mutant: an agent with a client notes the tracing in its answer
generate_noting_trace(kb, h, q, docs) ==
    LET m == find_best_match(kb, h, q)
    IN  IF m.raised THEN [raised |-> TRUE, result |-> KeyError]
        ELSE [raised |-> FALSE,
              result |-> IF client = TRUE THEN m.result.answer \o " (traced)"
                                          ELSE m.result.answer]

\* mutant: the generate phase matches with the scoring rule tried first
generate_scored_first(kb, h, q, docs) ==
    LET m == find_best_match_scored_first(kb, h, q)
    IN  IF m.raised THEN [raised |-> TRUE, result |-> KeyError]
        ELSE [raised |-> FALSE, result |-> m.result.answer]

\* MOEMSAgent._generate: the answer string (or KeyError); the record matched
\* the second time is dropped on return, and its new list object with it
generate(kb, h, q, docs) ==
    LET m == find_best_match(kb, h, q)
    IN  IF m.raised THEN [raised |-> TRUE, result |-> KeyError]
        ELSE [raised |-> FALSE, result |-> m.result.answer]

\* mutant: the source identifier of each document instead of its text
PageContents_source_ids(docs) == [i \in 1..Len(docs) |-> docs[i].metadata.source]

\* [doc.page_content for doc in docs]
PageContents(docs) == [i \in 1..Len(docs) |-> docs[i].page_content]


----------------------------------------------------------------------------
(* The evaluators *)

\* A float is the exact fraction <<numerator, denominator>>.
Frac(a, b) == <<a, b>>

\* a / b
Divide(a, b) ==
    IF b = 0 THEN [raised |-> TRUE, result |-> "ZeroDivisionError"]
    ELSE [raised |-> FALSE, result |-> Frac(a, b)]

\* the sum of the fractions of a sequence
RECURSIVE FracSum(_)
FracSum(fs) ==
    IF fs = <<>> THEN Frac(0, 1)
    ELSE LET r == FracSum(Tail(fs))
         IN  Frac(Head(fs)[1] * r[2] + r[1] * Head(fs)[2], Head(fs)[2] * r[2])

\* the elements of seq that satisfy Test, in order
Filter(seq, Test(_)) == SelectSeq(seq, Test)

IsSpace(c) == c \in {" ", "\t", "\n", "\r", "\f"}

\* str.split(): the maximal runs of non-whitespace characters, in order
Split(s) ==
    LET n == Len(s)
        ch(i) == SubSeq(s, i, i)
        starts == {i \in 1..n : ~IsSpace(ch(i)) /\ (i = 1 \/ IsSpace(ch(i - 1)))}
        endOf(i) == Min({j \in i..n : j = n \/ IsSpace(ch(j + 1))})
        kth(k) == CHOOSE i \in starts : Cardinality({x \in starts : x < i}) = k - 1
    IN  [k \in 1..Cardinality(starts) |-> SubSeq(s, kth(k), endOf(kth(k)))]

\* mutant: each marker found appends its term, "30" and "minutes" both "30"
KeyTerms_term_per_marker(reference) ==
    (IF Contains(reference, "moems") THEN <<"moems">> ELSE <<>>)
    \o (IF Contains(reference, "grade") THEN <<"grade">> ELSE <<>>)
    \o (IF Contains(reference, "30") THEN <<"30">> ELSE <<>>)
    \o (IF Contains(reference, "minutes") THEN <<"30">> ELSE <<>>)
    \o (IF Contains(reference, "5") \/ Contains(reference, "five")
          THEN (IF Contains(reference, "problem") THEN <<"5">> ELSE <<>>)
          ELSE <<>>)
    \o (IF Contains(reference, "calculator") THEN <<"calculator">> ELSE <<>>)
    \o (IF Contains(reference, "prohibit") \/ Contains(reference, "not allowed")
          THEN <<"prohibit">> ELSE <<>>)
    \o (IF Contains(reference, "point") THEN <<"point">> ELSE <<>>)
    \o (IF Contains(reference, "strateg") \/ Contains(reference, "time management")
          THEN <<"strateg">> ELSE <<>>)

\* mutant: the term 5 is named by "5" or "five" alone, without "problem"
KeyTerms_five_without_problem(reference) ==
    (IF Contains(reference, "moems") THEN <<"moems">> ELSE <<>>)
    \o (IF Contains(reference, "grade") THEN <<"grade">> ELSE <<>>)
    \o (IF Contains(reference, "30") \/ Contains(reference, "minutes")
          THEN <<"30">> ELSE <<>>)
    \o (IF Contains(reference, "5") \/ Contains(reference, "five")
          THEN <<"5">> ELSE <<>>)
    \o (IF Contains(reference, "calculator") THEN <<"calculator">> ELSE <<>>)
    \o (IF Contains(reference, "prohibit") \/ Contains(reference, "not allowed")
          THEN <<"prohibit">> ELSE <<>>)
    \o (IF Contains(reference, "point") THEN <<"point">> ELSE <<>>)
    \o (IF Contains(reference, "strateg") \/ Contains(reference, "time management")
          THEN <<"strateg">> ELSE <<>>)

\* mutant: the marker "grade" is not looked for
KeyTerms_without_grade(reference) ==
    (IF Contains(reference, "moems") THEN <<"moems">> ELSE <<>>)
    \o (IF Contains(reference, "30") \/ Contains(reference, "minutes")
          THEN <<"30">> ELSE <<>>)
    \o (IF Contains(reference, "5") \/ Contains(reference, "five")
          THEN (IF Contains(reference, "problem") THEN <<"5">> ELSE <<>>)
          ELSE <<>>)
    \o (IF Contains(reference, "calculator") THEN <<"calculator">> ELSE <<>>)
    \o (IF Contains(reference, "prohibit") \/ Contains(reference, "not allowed")
          THEN <<"prohibit">> ELSE <<>>)
    \o (IF Contains(reference, "point") THEN <<"point">> ELSE <<>>)
    \o (IF Contains(reference, "strateg") \/ Contains(reference, "time management")
          THEN <<"strateg">> ELSE <<>>)

\* the key terms the reference names, in the order the code appends them
KeyTerms(reference) ==
    (IF Contains(reference, "moems") THEN <<"moems">> ELSE <<>>)
    \o (IF Contains(reference, "grade") THEN <<"grade">> ELSE <<>>)
    \o (IF Contains(reference, "30") \/ Contains(reference, "minutes")
          THEN <<"30">> ELSE <<>>)
    \o (IF Contains(reference, "5") \/ Contains(reference, "five")
          THEN (IF Contains(reference, "problem") THEN <<"5">> ELSE <<>>)
          ELSE <<>>)
    \o (IF Contains(reference, "calculator") THEN <<"calculator">> ELSE <<>>)
    \o (IF Contains(reference, "prohibit") \/ Contains(reference, "not allowed")
          THEN <<"prohibit">> ELSE <<>>)
    \o (IF Contains(reference, "point") THEN <<"point">> ELSE <<>>)
    \o (IF Contains(reference, "strateg") \/ Contains(reference, "time management")
          THEN <<"strateg">> ELSE <<>>)

\* mutant: the operands of `in` are exchanged (text in term)
CountIn_text_in_term(terms, text) == Len(Filter(terms, LAMBDA t : Contains(t, text)))

\* sum(1 for term in terms if term in text)
CountIn(terms, text) == Len(Filter(terms, LAMBDA t : Contains(text, t)))

\* the comment of answer_correctness_evaluator; m and n are the strings shown
MatchedComment(m, n) == "Matched " \o m \o "/" \o n \o " key terms from reference"

\* mutant: the produced answer is searched as given, not lowercased
answer_correctness_evaluator_case_sensitive(run_, example_) ==
    LET prediction == run_.answer
        reference == LowerStr(example_.reference)
        key_terms == KeyTerms(reference)
        matches == CountIn(key_terms, prediction)
        score == IF key_terms = <<>>
                 THEN [raised |-> FALSE, result |-> Frac(7, 10)]
                 ELSE Divide(matches, Len(key_terms))
    IN  IF score.raised THEN score
        ELSE [raised |-> FALSE,
              result |-> [key |-> "answer_correctness",
                          score |-> score.result,
                          comment |->
                            MatchedComment(
                              IF key_terms # <<>> THEN ToString(matches) ELSE "N/A",
                              IF key_terms # <<>> THEN ToString(Len(key_terms))
                                                  ELSE "N/A")]]

\* mutant: the score is computed from the matches whether or not there are
\* key terms
answer_correctness_evaluator_unguarded(run_, example_) ==
    LET prediction == LowerStr(run_.answer)
        reference == LowerStr(example_.reference)
        key_terms == KeyTerms(reference)
        matches == CountIn(key_terms, prediction)
        score == Divide(matches, Len(key_terms))
    IN  IF score.raised THEN score
        ELSE [raised |-> FALSE,
              result |-> [key |-> "answer_correctness",
                          score |-> score.result,
                          comment |-> MatchedComment(ToString(matches),
                                                     ToString(Len(key_terms)))]]

\* answer_correctness_evaluator(run, example): the dictionary returned, or
\* the exception raised.  matches is bound in the else branch only.
answer_correctness_evaluator(run_, example_) ==
    LET prediction == LowerStr(run_.answer)
        reference == LowerStr(example_.reference)
        key_terms == KeyTerms(reference)
        matches == CountIn(key_terms, prediction)
        score == IF key_terms = <<>>
                 THEN [raised |-> FALSE, result |-> Frac(7, 10)]
                 ELSE Divide(matches, Len(key_terms))
    IN  IF score.raised THEN score
        ELSE [raised |-> FALSE,
              result |-> [key |-> "answer_correctness",
                          score |-> score.result,
                          comment |->
                            MatchedComment(
                              IF key_terms # <<>> THEN ToString(matches) ELSE "N/A",
                              IF key_terms # <<>> THEN ToString(Len(key_terms))
                                                  ELSE "N/A")]]

\* mutant: "what" is not a stop word
StopWords_without_what == {"when", "where", "who", "how",
                           "can", "does", "should", "the", "is", "are"}

StopWords == {"what", "when", "where", "who", "how",
              "can", "does", "should", "the", "is", "are"}

\* mutant: words of three characters are kept too
QuestionWords_three_or_longer(question_lower) ==
    Filter(Split(question_lower),
           LAMBDA w : Len(w) >= 3 /\ w \notin {"what", "when", "where", "who", "how",
                                               "can", "does", "should", "the", "is", "are"})

\* the words of the question the contexts are searched for
QuestionWords(question_lower) ==
    Filter(Split(question_lower), LAMBDA w : Len(w) > 3 /\ w \notin StopWords)

\* mutant: a context counts 1.0 when no word of the question is kept
Relevance_default_one(question_lower, ctx) ==
    LET ctx_lower == LowerStr(ctx)
        question_words == QuestionWords(question_lower)
    IN  IF question_words # <<>>
        THEN Divide(CountIn(question_words, ctx_lower), Len(question_words))
        ELSE [raised |-> FALSE, result |-> Frac(1, 1)]

\* the relevance appended for one context
Relevance(question_lower, ctx) ==
    LET ctx_lower == LowerStr(ctx)
        question_words == QuestionWords(question_lower)
    IN  IF question_words # <<>>
        THEN Divide(CountIn(question_words, ctx_lower), Len(question_words))
        ELSE [raised |-> FALSE, result |-> Frac(1, 2)]

\* format(x, ".2f") of a float x >= 0: the decimal with two places nearest to
\* x, a tie going to the even last digit
Format2f(f) ==
    LET n == f[1] * 100
        q == n \div f[2]
        r == n % f[2]
        h == IF 2 * r > f[2] \/ (2 * r = f[2] /\ q % 2 = 1) THEN q + 1 ELSE q
        d == h % 100
    IN  ToString(h \div 100) \o "." \o ToString(d \div 10) \o ToString(d % 10)

\* the comment of the second return of context_relevancy_evaluator
AverageComment(n, avg) ==
    "Average relevancy across " \o ToString(n) \o " contexts: " \o Format2f(avg)

\* context_relevancy_evaluator(run, example): the dictionary returned, or the
\* exception raised
context_relevancy_evaluator(run_, example_) ==
    LET question_lower == LowerStr(example_.question)
        contexts == run_.contexts
    IN  IF contexts = <<>>
        THEN [raised |-> FALSE,
              result |-> [key |-> "context_relevancy",
                          score |-> Frac(0, 1),
                          comment |-> "No contexts retrieved"]]
        ELSE LET rel == [i \in 1..Len(contexts) |->
                           Relevance(question_lower, contexts[i])]
             IN  IF \E i \in 1..Len(rel) : rel[i].raised
                 THEN [raised |-> TRUE, result |-> "ZeroDivisionError"]
                 ELSE LET relevance_scores == [i \in 1..Len(rel) |-> rel[i].result]
                          total == FracSum(relevance_scores)
                          avg_relevance ==
                              Divide(total[1], total[2] * Len(relevance_scores))
                      IN  IF avg_relevance.raised THEN avg_relevance
                          ELSE [raised |-> FALSE,
                                result |-> [key |-> "context_relevancy",
                                            score |-> avg_relevance.result,
                                            comment |->
                                              AverageComment(Len(contexts),
                                                             avg_relevance.result)]]

----------------------------------------------------------------------------
(* Questions *)

\* the most fragments a generated question is made of
MaxFrags == 2

\* Pieces of question text: every phrase the router tests, in mixed case,
\* halves of phrases that join across a boundary, and text no rule tests.
Fragments ==
    << "What is MOEMS", "WHAT'S MOEMS", "Structure", "format",
       "participate", "Who can", "Eligib", "scor", "POINT", "Calculator",
       "Example", "Sample", " problem", "strateg", "Time Management",
       "time", "How long", "minutes", "3rd grade", "Third Grade",
       "weather", "?" >>

\* the strings made of exactly n fragments
RECURSIVE FragStrings(_)
FragStrings(n) ==
    IF n = 0 THEN {""}
    ELSE {s \o Fragments[i] : s \in FragStrings(n - 1), i \in 1..Len(Fragments)}

\* the questions of the tests, of EVALUATION_EXAMPLES and of DEMO_QUESTIONS
LiteralQuestions ==
    { "What is MOEMS?",
      "What is the structure of a MOEMS contest?",
      "Who can participate in MOEMS?",
      "How is MOEMS scored?",
      "Are calculators allowed in MOEMS?",
      "Are calculators allowed in MOEMS contests?",
      "How much time do students have for each problem?",
      "What strategies should students use for time management?",
      "Can a 3rd grader participate in MOEMS?",
      "Can a 3rd grader participate?",
      "What is the weather today?",
      "What is the scoring structure?" }

Questions ==
    LiteralQuestions \cup UNION {FragStrings(n) : n \in 0..MaxFrags}

----------------------------------------------------------------------------
(* What the evaluators are given *)

EVALUATION_EXAMPLES ==
    << [question |-> "What is MOEMS?",
        reference |-> "MOEMS stands for Mathematical Olympiads for Elementary and Middle Schools, a mathematics competition for students in grades 4-8 that helps develop problem-solving skills."],
       [question |-> "What is the structure of a MOEMS contest?",
        reference |-> "Each MOEMS contest consists of 5 problems to be completed in 30 minutes total, with calculators prohibited."],
       [question |-> "Who can participate in MOEMS?",
        reference |-> "Students in grades 4-8 (elementary and middle school) can participate. Exceptional 3rd graders may participate on a case-by-case basis."],
       [question |-> "How is MOEMS scored?",
        reference |-> "Each problem is worth 1 point, for a maximum of 5 points per contest. Teams compete based on cumulative scores."],
       [question |-> "Are calculators allowed in MOEMS?",
        reference |-> "No, calculators are strictly prohibited in MOEMS contests to emphasize mental math and problem-solving skills."],
       [question |-> "How much time do students have for each problem?",
        reference |-> "Students have 30 minutes total for 5 problems, averaging 6 minutes per problem, though they can allocate time as needed."],
       [question |-> "What strategies should students use for time management?",
        reference |-> "Read all problems first (2 min), start with easiest (10 min), work on medium difficulty (10 min), attempt hardest last (8 min)."],
       [question |-> "Can a 3rd grader participate in MOEMS?",
        reference |-> "MOEMS is designed for grades 4-8, but exceptional 3rd graders may participate on a case-by-case basis by contacting organizers."] >>

\* the most fragments a generated reference is made of
MaxRefFrags == 2

\* Pieces of reference text: every marker the answer evaluator tests, in
\* mixed case, and text it does not test.
MarkerFragments ==
    << "MOEMS", "Grade", "30", "minutes", "5", "five", " problem",
       "Calculator", "prohibit", "Not Allowed", "point", "strateg",
       "Time Management", " contest " >>

RECURSIVE MarkerStrings(_)
MarkerStrings(n) ==
    IF n = 0 THEN {""}
    ELSE {s \o MarkerFragments[i] :
            s \in MarkerStrings(n - 1), i \in 1..Len(MarkerFragments)}

\* a reference that names every one of the eight terms
AllMarkersReference ==
    "MOEMS grade 30 minutes five problems, calculator not allowed, point, time management"

\* reference answers: those of the examples, one of the specification
\* (section 8), and the generated ones
References ==
    {EVALUATION_EXAMPLES[i].reference : i \in 1..Len(EVALUATION_EXAMPLES)}
      \cup {"MOEMS is for grades 4-8, 5 problems, 30 minutes, calculators prohibited"}
      \cup {AllMarkersReference}
      \cup UNION {MarkerStrings(n) : n \in 0..MaxRefFrags}

\* produced answers: every answer the agent can give, the empty answer, and
\* the fragments
Predictions ==
    {KB_answer[k] : k \in DOMAIN KB_answer}
      \cup {FallbackAnswer, ""}
      \cup MarkerStrings(1)

\* the most contexts of a generated run
MaxContexts == 2

\* document texts a run can carry as contexts
SnippetTexts ==
    << KB_retrieved_docs["what is moems"][1].page_content,
       KB_retrieved_docs["structure"][1].page_content,
       KB_retrieved_docs["structure"][2].page_content,
       KB_retrieved_docs["time"][1].page_content,
       FallbackDocs[1].page_content,
       "No contest today.",
       "" >>

ContextLists ==
    UNION {[1..n -> {SnippetTexts[i] : i \in 1..Len(SnippetTexts)}] :
             n \in 0..MaxContexts}

\* questions of examples: the literal ones, and ones whose words are all
\* dropped, repeated, or separated by several blanks
ContextQuestions ==
    LiteralQuestions
      \cup {"", "What is it?", "time time students", "Students  have\tMINUTES "}

----------------------------------------------------------------------------
(* The calls of one query, and concurrent callers *)

\* mutant: _generate takes the record matched by _retrieve and does not call
\* the router
GenerateSpans_reusing_record == <<"generate_answer", "/generate_answer">>

\* the calls made by self._retrieve(question): name on entry, /name on return
RetrieveSpans ==
    <<"retrieve_documents", "find_best_match", "/find_best_match",
      "/retrieve_documents">>

\* the calls made by self._generate(question, docs)
GenerateSpans ==
    <<"generate_answer", "find_best_match", "/find_best_match",
      "/generate_answer">>

\* the most callers that invoke the agent and the evaluators at a time
MaxThreads == 2

Threads == 1..MaxThreads

\* a caller with no invocation running and no result held
IdleThread ==
    [pc |-> "idle", question |-> None, retrieval_result |-> None,
     answer |-> None, envelope |-> None, run |-> None, example |-> None,
     evaluation |-> None, last |-> "none"]

----------------------------------------------------------------------------
(* The scripts at rest *)

\* no run_evaluations call is running; evaluated is the history of what the
\* evaluate calls of the last run did
IdleHarness ==
    [pc |-> "idle", dataset_name |-> None, results |-> <<>>, evaluated |-> <<>>]

\* run_interactive_mode has not been entered; inputs is the history of what
\* each pass of its loop read and did, result what the function returned
IdleSession ==
    [pc |-> "idle", query_count |-> 0, inputs |-> <<>>, result |-> None]

----------------------------------------------------------------------------
(* The state machine *)

Init ==
    /\ client \in BOOLEAN
    /\ knowledge_base = KNOWLEDGE_BASE
    /\ lists = KNOWLEDGE_BASE_lists
    /\ pc = "idle"
    /\ question = None
    /\ retrieval_result = None
    /\ answer = None
    /\ envelope = None
    /\ last = "none"
    /\ log = <<>>
    /\ run = None
    /\ example = None
    /\ evaluation = None
    /\ trace = <<>>
    /\ threads = [t \in Threads |-> IdleThread]
    /\ service = None
    /\ created = <<>>
    /\ harness = IdleHarness
    /\ returned = None
    /\ session = IdleSession

\* the list objects the caller and the running call name
Roots(kb, rr, env) ==
    KBRefs(kb)
      \cup {rr[i].sources : i \in DOMAIN rr}
      \cup {env[i].sources : i \in DOMAIN env}
      \cup {env[i].retrieved_contexts : i \in DOMAIN env}

\* The caller lets go of the dictionary it was returned by query or by an
\* evaluator, as run_demo_mode does with every result of run_timed_query.
Forget ==
    /\ pc = "idle"
    /\ envelope # None \/ run # None
    /\ envelope' = None
    /\ run' = None
    /\ example' = None
    /\ evaluation' = None
    /\ last' = "none"
    /\ trace' = <<>>
    /\ lists' = Collect(lists, Roots(knowledge_base, None, None))
    /\ UNCHANGED <<scripts, threads, client, knowledge_base, pc, question, retrieval_result,
                   answer, log>>

\* the caller holds no result and no call is running
Free ==
    /\ pc = "idle"
    /\ envelope = None
    /\ run = None

\* agent.query(q) is called
Call(QS) ==
    /\ Free
    /\ \E q \in QS : question' = Some(q)
    /\ pc' = "retrieve"
    /\ last' = "none"
    /\ trace' = <<"moems_agent_query">>
    /\ UNCHANGED <<scripts, threads, client, knowledge_base, lists, retrieval_result, answer,
                   envelope, log, run, example, evaluation>>

\* query, step 1: retrieval_result = self._retrieve(question)
Retrieve ==
    /\ pc = "retrieve"
    /\ LET r == retrieve(knowledge_base, lists, question[1])
       IN  IF r.raised
             THEN /\ pc' = "idle"
                  /\ last' = "raised"
                  /\ question' = None
                  /\ UNCHANGED <<retrieval_result, lists>>
             ELSE /\ pc' = "generate"
                  /\ retrieval_result' = Some(r.result)
                  /\ lists' = r.lists
                  /\ UNCHANGED <<last, question>>
    /\ trace' = trace \o RetrieveSpans
    /\ UNCHANGED <<scripts, threads, client, knowledge_base, answer, envelope, log, run, example, evaluation>>

\* query, step 2: answer = self._generate(question, retrieved_docs)
Generate ==
    /\ pc = "generate"
    /\ LET g == generate(knowledge_base, lists, question[1],
                         retrieval_result[1].retrieved_docs)
       IN  IF g.raised
             THEN /\ pc' = "idle"
                  /\ last' = "raised"
                  /\ question' = None
                  /\ retrieval_result' = None
                  /\ lists' = Collect(lists, Roots(knowledge_base, None, None))
                  /\ UNCHANGED answer
             ELSE /\ pc' = "assemble"
                  /\ answer' = Some(g.result)
                  /\ UNCHANGED <<last, question, retrieval_result, lists>>
    /\ trace' = trace \o GenerateSpans
    /\ UNCHANGED <<scripts, threads, client, knowledge_base, envelope, log, run, example, evaluation>>

\* the dictionary query builds: a new list object c for retrieved_contexts
Envelope(q, a, rr, c) ==
    [question |-> q,
     answer |-> a,
     sources |-> rr.sources,
     num_docs_retrieved |-> Len(rr.retrieved_docs),
     retrieved_contexts |-> c]

\* what a reader of the dictionary e sees: the lists by value
Seen(h, e) ==
    [question |-> e.question,
     answer |-> e.answer,
     sources |-> h[e.sources],
     num_docs_retrieved |-> e.num_docs_retrieved,
     retrieved_contexts |-> h[e.retrieved_contexts]]

\* what the history keeps of a returned dictionary: what the caller sees in
\* it, and whether the agent that returned it has a client
Logged(h, e) ==
    [client |-> client,
     question |-> e.question,
     answer |-> e.answer,
     sources |-> h[e.sources],
     num_docs_retrieved |-> e.num_docs_retrieved,
     retrieved_contexts |-> h[e.retrieved_contexts]]

\* query, step 3: the dictionary is built and returned to the caller; with
\* track, the history records what the caller sees in it on return
Return(track) ==
    /\ pc = "assemble"
    /\ LET c == NewRef(lists)
           e == Envelope(question[1], answer[1], retrieval_result[1], c)
           h == Alloc(lists, c, PageContents(retrieval_result[1].retrieved_docs))
       IN  /\ envelope' = Some(e)
           /\ lists' = Collect(h, Roots(knowledge_base, None, Some(e)))
           /\ log' = IF track THEN Append(log, Logged(h, e)) ELSE log
    /\ pc' = "idle"
    /\ last' = "returned"
    /\ question' = None
    /\ retrieval_result' = None
    /\ answer' = None
    /\ trace' = Append(trace, "/moems_agent_query")
    /\ UNCHANGED <<scripts, threads, client, knowledge_base, run, example, evaluation>>

\* an evaluator is applied to run r and example x; o is what it returned
Evaluated(r, x, o) ==
    /\ run' = Some(r)
    /\ example' = Some(x)
    /\ IF o.raised
         THEN evaluation' = None /\ last' = "raised"
         ELSE evaluation' = Some(o.result) /\ last' = "returned"
    /\ UNCHANGED <<scripts, threads, client, knowledge_base, lists, pc, question,
                   retrieval_result, answer, envelope, log, trace>>

\* answer_correctness_evaluator(run, example) is called
EvaluateAnswer ==
    /\ Free
    /\ \E a \in Predictions, ref \in References :
         LET r == [answer |-> a, contexts |-> <<>>]
             x == [question |-> "", reference |-> ref]
         IN  Evaluated(r, x, answer_correctness_evaluator(r, x))

\* context_relevancy_evaluator(run, example) is called
EvaluateContexts ==
    /\ Free
    /\ \E q \in ContextQuestions, c \in ContextLists :
         LET r == [answer |-> "", contexts |-> c]
             x == [question |-> q, reference |-> ""]
         IN  Evaluated(r, x, context_relevancy_evaluator(r, x))

Next ==
    \/ Call(Questions)
    \/ Retrieve
    \/ Generate
    \/ Return(FALSE)
    \/ Forget
    \/ EvaluateAnswer
    \/ EvaluateContexts

Spec == Init /\ [][Next]_vars

NextEval ==
    \/ EvaluateAnswer
    \/ EvaluateContexts
    \/ Forget

\* no agent is built with a client: the evaluators are functions of the
\* module and take no agent
InitEval == Init /\ client = FALSE

\* the evaluators alone, applied to any run and example of the input sets
SpecEval == InitEval /\ [][NextEval]_vars


----------------------------------------------------------------------------
(* Claims about the router and the pipeline *)

\* the record the rule table names for q, its lists by value
ExpectedRecord(q) ==
    LET fr == FiringRules(q)
    IN  IF fr = {}
        THEN [answer |-> FallbackAnswer,
              sources |-> <<"moems_general">>,
              retrieved_docs |-> FallbackDocs]
        ELSE LET k == RuleKey[Min(fr)]
             IN [answer |-> KB_answer[k],
              sources |-> KB_sources[k],
              retrieved_docs |-> KB_retrieved_docs[k]]

\* the dictionary the caller holds, its lists by value
Held == Seen(lists, envelope[1])

\* C1: the router returns, in both phases of query, the record of the
\* lowest-numbered rule of the table whose phrase is a substring of the
\* lowercased question, and the fallback record when no rule fires; "What is
\* the scoring structure?" fires rules 2 and 4 and gets the structure record.
C1_FirstMatchWins ==
    pc \in {"generate", "assemble"} =>
      LET expected == ExpectedRecord(question[1])
      IN  /\ lists[retrieval_result[1].sources] = expected.sources
          /\ retrieval_result[1].retrieved_docs = expected.retrieved_docs
          /\ pc = "assemble" =>
                /\ answer[1] = expected.answer
                /\ question[1] = "What is the scoring structure?" =>
                     /\ FiringRules(question[1]) = {2, 4}
                     /\ answer[1] = KB_answer["structure"]
                     /\ retrieval_result[1].sources
                          = knowledge_base["structure"].sources

C1_Witness ==
    /\ pc = "assemble"
    /\ question[1] = "What is the scoring structure?"
    /\ answer[1] = KB_answer["structure"]

\* C2 as stated: whenever the question contains "calculator"
\* (case-insensitively), the answer returned contains "calculator".
C2_CalculatorAlways ==
    (envelope # None /\ Contains(LowerStr(envelope[1].question), "calculator"))
      => Contains(LowerStr(envelope[1].answer), "calculator")

\* C2 as amended: whenever the question contains "calculator" and no phrase
\* of rule 1, 3 or 4, the answer returned contains "calculator".
C2_CalculatorUnlessEarlierRule ==
    (/\ envelope # None
     /\ Contains(LowerStr(envelope[1].question), "calculator")
     /\ FiringRules(envelope[1].question) \cap {1, 3, 4} = {})
      => Contains(LowerStr(envelope[1].answer), "calculator")

C2_Witness ==
    /\ envelope # None
    /\ FiringRules(envelope[1].question) = {2, 5}
    /\ Contains(LowerStr(envelope[1].answer), "calculator")

\* C6: when no rule fires, query returns the fallback answer, which mentions
\* "grades 4-8" and the six topics, sources ["moems_general"] and one snippet.
C6_FallbackEnvelope ==
    (envelope # None /\ FiringRules(envelope[1].question) = {}) =>
        /\ Held.answer = FallbackAnswer
        /\ Contains(Held.answer, "grades 4-8")
        /\ \A t \in {"structure", "eligibility", "scoring", "rules",
                     "strategies", "examples"} : Contains(Held.answer, t)
        /\ Held.sources = <<"moems_general">>
        /\ Held.num_docs_retrieved = 1
        /\ Len(Held.retrieved_contexts) = 1

C6_Witness ==
    /\ envelope # None
    /\ envelope[1].question = "What is the weather today?"
    /\ Held.sources = <<"moems_general">>

\* C7: the dictionary returned carries the question unchanged, as
\* num_docs_retrieved the number of documents of the matched record, and as
\* retrieved_contexts the text of each of those documents, in order.
C7_EnvelopeAssembly ==
    [][(pc = "assemble" /\ pc' = "idle") =>
         LET docs == ExpectedRecord(question[1]).retrieved_docs
             e == Seen(lists', envelope'[1])
         IN  /\ e.question = question[1]
             /\ e.num_docs_retrieved = Len(docs)
             /\ Len(e.retrieved_contexts) = Len(docs)
             /\ \A i \in 1..Len(docs) :
                  e.retrieved_contexts[i] = docs[i].page_content]_vars

C7_Witness ==
    /\ envelope # None
    /\ envelope[1].question = "What is MOEMS?"
    /\ Held.num_docs_retrieved = 2
    /\ Held.retrieved_contexts[2] = KB_retrieved_docs["what is moems"][2].page_content

\* C8: every record of the knowledge base has an answer, at least one source
\* and at least one document, and every dictionary query returns has a
\* non-empty answer, non-empty sources and num_docs_retrieved >= 1.
C8_RecordsNonEmpty ==
    /\ \A k \in DOMAIN knowledge_base :
         /\ Len(knowledge_base[k].answer) > 0
         /\ Len(lists[knowledge_base[k].sources]) >= 1
         /\ Len(knowledge_base[k].retrieved_docs) >= 1
    /\ envelope # None =>
         /\ Len(Held.answer) > 0
         /\ Len(Held.sources) >= 1
         /\ Held.num_docs_retrieved >= 1

C8_Witness ==
    /\ envelope # None
    /\ FiringRules(envelope[1].question) = {}
    /\ Held.num_docs_retrieved = 1

\* C9: for "What is MOEMS?" the answer contains "mathematical olympiad" or
\* "mathematics competition", sources is non-empty and num_docs_retrieved > 0.
C9_WhatIsMoems ==
    (envelope # None /\ envelope[1].question = "What is MOEMS?") =>
        /\ \/ Contains(LowerStr(Held.answer), "mathematical olympiad")
           \/ Contains(LowerStr(Held.answer), "mathematics competition")
        /\ Len(Held.sources) > 0
        /\ Held.num_docs_retrieved > 0

C9_Witness ==
    /\ envelope # None
    /\ envelope[1].question = "What is MOEMS?"
    /\ Contains(LowerStr(Held.answer), "mathematical olympiad")

\* C10: for "What is the structure of a MOEMS contest?" the answer contains
\* ("5" or "five") and "problem" and ("30" or "minutes"): rule 2 routes the
\* question to the structure record.
C10_StructureQuestion ==
    (envelope # None
       /\ envelope[1].question = "What is the structure of a MOEMS contest?") =>
        LET a == LowerStr(Held.answer)
        IN  /\ Contains(a, "5") \/ Contains(a, "five")
            /\ Contains(a, "problem")
            /\ Contains(a, "30") \/ Contains(a, "minutes")
            /\ Min(FiringRules(envelope[1].question)) = 2
            /\ Held.answer = KB_answer["structure"]

C10_Witness ==
    /\ envelope # None
    /\ envelope[1].question = "What is the structure of a MOEMS contest?"
    /\ Held.answer = KB_answer["structure"]


\* C5: no call of query or of an evaluator raises, whatever string it is
\* given.  A query returns a dictionary with all five entries, built from the
\* fallback record when the question is empty or fires no rule; an evaluator
\* returns a dictionary with a key and a score; and the answer evaluator,
\* given a reference that names no key term, returns the score 0.7 with the
\* comment "Matched N/A/N/A key terms from reference".
C5_Total ==
    /\ last # "raised"
    /\ pc = "generate" => retrieval_result # None
    /\ pc = "assemble" => answer # None
    /\ (pc = "idle" /\ last = "returned") => (envelope # None \/ evaluation # None)
    /\ envelope # None =>
         /\ DOMAIN envelope[1] = {"question", "answer", "sources",
                                   "num_docs_retrieved", "retrieved_contexts"}
         /\ {envelope[1].sources, envelope[1].retrieved_contexts} \subseteq DOMAIN lists
         /\ FiringRules(envelope[1].question) = {} =>
              /\ Held.answer = FallbackAnswer
              /\ Held.sources = <<"moems_general">>
              /\ Held.retrieved_contexts = PageContents(FallbackDocs)
    /\ run # None =>
         /\ evaluation # None
         /\ {"key", "score"} \subseteq DOMAIN evaluation[1]
         /\ evaluation[1].score[2] > 0
         /\ (/\ evaluation[1].key = "answer_correctness"
             /\ KeyTerms(LowerStr(example[1].reference)) = <<>>) =>
               /\ evaluation[1].score = Frac(7, 10)
               /\ evaluation[1].comment = "Matched N/A/N/A key terms from reference"

C5_Witness ==
    /\ last = "returned"
    /\ envelope # None
    /\ envelope[1].question = ""
    /\ Held.answer = FallbackAnswer
    /\ Held.num_docs_retrieved = 1

\* a second case of C5: the answer evaluator on a reference with no key term
C5_WitnessNoKeyTerms ==
    /\ last = "returned"
    /\ evaluation # None
    /\ evaluation[1].key = "answer_correctness"
    /\ example[1].reference = " contest "
    /\ evaluation[1].score = Frac(7, 10)


----------------------------------------------------------------------------
(* Sequences of queries on one agent, and callers that change what they     *)
(* were returned                                                            *)

\* the most queries of one run whose results the history keeps
MaxQueries == 3

\* the most elements a caller grows a list it was returned to
MaxListLen == 3

NextRepeat ==
    \/ Len(log) < MaxQueries /\ Call(LiteralQuestions)
    \/ Retrieve
    \/ Generate
    \/ Return(TRUE)
    \/ Forget

\* one agent answering up to MaxQueries questions, in any order, with repeats
SpecRepeat == Init /\ [][NextRepeat]_vars

\* the caller appends to the sources list of the dictionary it holds:
\* result["sources"].append("x")
CallerAppendsSource ==
    /\ pc = "idle"
    /\ envelope # None
    /\ Len(lists[envelope[1].sources]) < MaxListLen
    /\ lists' = [lists EXCEPT ![envelope[1].sources] = Append(@, "x")]
    /\ UNCHANGED <<scripts, threads, client, knowledge_base, pc, question, retrieval_result,
                   answer, envelope, last, log, run, example, evaluation, trace>>

\* the caller empties the retrieved_contexts list of the dictionary it holds:
\* result["retrieved_contexts"].clear()
CallerClearsContexts ==
    /\ pc = "idle"
    /\ envelope # None
    /\ lists[envelope[1].retrieved_contexts] # <<>>
    /\ lists' = [lists EXCEPT ![envelope[1].retrieved_contexts] = <<>>]
    /\ UNCHANGED <<scripts, threads, client, knowledge_base, pc, question, retrieval_result,
                   answer, envelope, last, log, run, example, evaluation, trace>>

NextCaller ==
    \/ Len(log) < MaxQueries /\ Call(LiteralQuestions)
    \/ Retrieve
    \/ Generate
    \/ Return(TRUE)
    \/ Forget
    \/ CallerAppendsSource
    \/ CallerClearsContexts

\* as SpecRepeat, with a caller that also changes the lists it was returned
SpecCaller == Init /\ [][NextCaller]_vars

\* C3: over any sequence of queries on one agent, two calls with the same
\* question return the same answer, sources and retrieved_contexts, whatever
\* was asked before or in between.
C3_SameQuestionSameResult ==
    \A i, j \in DOMAIN log :
        log[i].question = log[j].question =>
            /\ log[i].answer = log[j].answer
            /\ log[i].sources = log[j].sources
            /\ log[i].retrieved_contexts = log[j].retrieved_contexts

C3_Witness ==
    /\ Len(log) = 3
    /\ log[1].question = "How is MOEMS scored?"
    /\ log[2].question = "What is the weather today?"
    /\ log[3].question = "How is MOEMS scored?"
    /\ log[1].sources = log[3].sources

\* C4 as stated: nothing a caller does to a dictionary it was returned
\* changes the knowledge base or what a later query returns, and query does
\* not change the knowledge base.
C4_NoSharedMutableState ==
    /\ knowledge_base = KNOWLEDGE_BASE
    /\ \A k \in DOMAIN knowledge_base :
         lists[knowledge_base[k].sources] = KB_sources[k]
    /\ \A i, j \in DOMAIN log :
         log[i].question = log[j].question =>
             /\ log[i].answer = log[j].answer
             /\ log[i].sources = log[j].sources
             /\ log[i].retrieved_contexts = log[j].retrieved_contexts


----------------------------------------------------------------------------
(* Claims about the evaluators *)

\* an answer evaluation is held
AnswerEvaluated ==
    /\ evaluation # None
    /\ evaluation[1].key = "answer_correctness"

\* a context evaluation is held
ContextEvaluated ==
    /\ evaluation # None
    /\ evaluation[1].key = "context_relevancy"

Terms == {"moems", "grade", "30", "5", "calculator", "prohibit", "point", "strateg"}

\* the term set T of a lowercased reference, as a set
TermSet(ref) ==
    {t \in Terms :
       CASE t = "moems" -> Contains(ref, "moems")
         [] t = "grade" -> Contains(ref, "grade")
         [] t = "30" -> Contains(ref, "30") \/ Contains(ref, "minutes")
         [] t = "5" -> (Contains(ref, "5") \/ Contains(ref, "five"))
                         /\ Contains(ref, "problem")
         [] t = "calculator" -> Contains(ref, "calculator")
         [] t = "prohibit" -> Contains(ref, "prohibit") \/ Contains(ref, "not allowed")
         [] t = "point" -> Contains(ref, "point")
         [] t = "strateg" -> Contains(ref, "strateg") \/ Contains(ref, "time management")}

\* the terms of T that occur in the lowercased produced answer
Matched(T, pred) == {t \in T : Contains(pred, t)}

\* C11: the answer evaluator scores 0.7 when the term set T of the lowercased
\* reference is empty, and otherwise the number of terms of T that occur in
\* the lowercased produced answer divided by the size of T.
C11_TermSetScore ==
    AnswerEvaluated =>
        LET T == TermSet(LowerStr(example[1].reference))
            m == Matched(T, LowerStr(run[1].answer))
            score == evaluation[1].score
        IN  IF T = {} THEN score = Frac(7, 10)
            ELSE /\ score[2] > 0
                 /\ score[1] * Cardinality(T) = Cardinality(m) * score[2]

C11_Witness ==
    /\ AnswerEvaluated
    /\ example[1].reference = "5point"
    /\ run[1].answer = "point"
    /\ evaluation[1].score = Frac(1, 1)

SpecReference == "MOEMS is for grades 4-8, 5 problems, 30 minutes, calculators prohibited"

\* C12: for the empty produced answer and the reference "MOEMS is for grades
\* 4-8, 5 problems, 30 minutes, calculators prohibited" the term set has at
\* least 5 terms, none is matched, and the score is 0.
C12_EmptyAnswerScoresZero ==
    (AnswerEvaluated /\ run[1].answer = "" /\ example[1].reference = SpecReference) =>
        /\ Cardinality(TermSet(LowerStr(SpecReference))) >= 5
        /\ evaluation[1].score[1] = 0
        /\ evaluation[1].score[2] > 0
        /\ evaluation[1].comment = "Matched 0/6 key terms from reference"

C12_Witness ==
    /\ AnswerEvaluated
    /\ run[1].answer = ""
    /\ example[1].reference = SpecReference
    /\ evaluation[1].score = Frac(0, 6)

\* C13: the answer of the what-is-moems record, scored against the reference
\* of the example "What is MOEMS?", gets 1.0: every term of that reference
\* occurs in that answer.
C13_SelfConsistent ==
    (/\ AnswerEvaluated
     /\ run[1].answer = KB_answer["what is moems"]
     /\ example[1].reference = EVALUATION_EXAMPLES[1].reference) =>
        /\ EVALUATION_EXAMPLES[1].question = "What is MOEMS?"
        /\ evaluation[1].score[1] = evaluation[1].score[2]
        /\ evaluation[1].score[2] > 0
        /\ \A t \in TermSet(LowerStr(example[1].reference)) :
             Contains(LowerStr(run[1].answer), t)

C13_Witness ==
    /\ AnswerEvaluated
    /\ run[1].answer = KB_answer["what is moems"]
    /\ example[1].reference = EVALUATION_EXAMPLES[1].reference
    /\ evaluation[1].comment = "Matched 2/2 key terms from reference"

\* the tokens Q of a lowercased question: longer than 3 characters and no
\* stop word, in order and with repeats
TokensQ(q) ==
    SelectSeq(Split(q),
              LAMBDA w : Len(w) > 3
                         /\ w \notin {"what", "when", "where", "who", "how", "can",
                                     "does", "should", "the", "is", "are"})

\* the number of pairs (snippet, token of Q) with the token in the
\* lowercased snippet
Hits(Q, cs) ==
    Cardinality({p \in (1..Len(cs)) \X (1..Len(Q)) :
                   Contains(LowerStr(cs[p[1]]), Q[p[2]])})

\* the score is the mean of the relevances of the snippets cs for tokens Q
IsMean(score, Q, cs) ==
    /\ score[2] > 0
    /\ IF Q = <<>> THEN 2 * score[1] = score[2]
       ELSE score[1] * Len(Q) * Len(cs) = Hits(Q, cs) * score[2]

\* C14: the context evaluator returns 0 for an empty snippet list, and
\* otherwise the mean over the snippets of 0.5 when Q is empty and else of
\* (tokens of Q in the lowercased snippet) / |Q|, Q being the whitespace
\* tokens of the lowercased question longer than 3 and not stop words.
C14_MeanRelevance ==
    ContextEvaluated =>
        LET Q == TokensQ(LowerStr(example[1].question))
            cs == run[1].contexts
        IN  IF cs = <<>> THEN evaluation[1].score = Frac(0, 1)
            ELSE IsMean(evaluation[1].score, Q, cs)

C14_Witness ==
    /\ ContextEvaluated
    /\ example[1].question = "time time students"
    /\ Len(run[1].contexts) = 2
    /\ evaluation[1].score[1] > 0
    /\ evaluation[1].score[1] < evaluation[1].score[2]

\* C14, a second case: no token survives and every snippet counts 0.5
C14_WitnessNoTokens ==
    /\ ContextEvaluated
    /\ example[1].question = "What is it?"
    /\ Len(run[1].contexts) = 2
    /\ 2 * evaluation[1].score[1] = evaluation[1].score[2]

WeatherQuestion == "What is the weather today?"

\* no snippet of cs contains a token of toks
NoneContains(cs, toks) ==
    \A i \in 1..Len(cs), t \in toks : ~Contains(LowerStr(cs[i]), t)

\* C15 as stated: for "What is the weather today?" the surviving tokens are
\* "weather" and "today", so that the score is the mean of the relevances
\* computed with these two tokens.
C15_TokensWeatherToday ==
    (ContextEvaluated /\ example[1].question = WeatherQuestion
       /\ run[1].contexts # <<>>) =>
        IsMean(evaluation[1].score, <<"weather", "today">>, run[1].contexts)

\* C15, amended: for "What is the weather today?" the surviving tokens are
\* "weather" and "today?" (the question mark stays on the token); the score
\* is the mean of the relevances computed with these two, and it is 0 when no
\* snippet contains "weather" or "today".
C15_TokensWeatherTodayMark ==
    (ContextEvaluated /\ example[1].question = WeatherQuestion
       /\ run[1].contexts # <<>>) =>
        /\ QuestionWords(LowerStr(WeatherQuestion)) = <<"weather", "today?">>
        /\ IsMean(evaluation[1].score, <<"weather", "today?">>, run[1].contexts)
        /\ NoneContains(run[1].contexts, {"weather", "today"}) =>
             evaluation[1].score[1] = 0

C15_Witness ==
    /\ ContextEvaluated
    /\ example[1].question = WeatherQuestion
    /\ run[1].contexts = <<FallbackDocs[1].page_content>>
    /\ evaluation[1].score[1] = 0
    /\ evaluation[1].comment = "Average relevancy across 1 contexts: 0.00"

\* the references of the provided examples
ExampleReferences ==
    {EVALUATION_EXAMPLES[i].reference : i \in 1..Len(EVALUATION_EXAMPLES)}

\* the default score was given: no key term was found in the reference
DefaultGiven ==
    /\ evaluation[1].score = Frac(7, 10)
    /\ evaluation[1].comment = "Matched N/A/N/A key terms from reference"

\* C18 as stated: every reference of the provided examples names a marker,
\* so that no evaluation of a provided example gives the default score 0.7.
C18_ExamplesNeverDefault ==
    (AnswerEvaluated /\ example[1].reference \in ExampleReferences) =>
        /\ TermSet(LowerStr(example[1].reference)) # {}
        /\ ~DefaultGiven

\* the index of the example on time-management strategies
StrategiesExample ==
    CHOOSE i \in 1..Len(EVALUATION_EXAMPLES) :
        EVALUATION_EXAMPLES[i].question =
            "What strategies should students use for time management?"

\* C18, amended: every reference of the provided examples but that of "What
\* strategies should students use for time management?" names a marker and
\* never gets the default score; that one names none and always gets 0.7.
C18_ExamplesDefaultOnlyStrategies ==
    (AnswerEvaluated /\ example[1].reference \in ExampleReferences) =>
        IF example[1].reference = EVALUATION_EXAMPLES[StrategiesExample].reference
        THEN TermSet(LowerStr(example[1].reference)) = {} /\ DefaultGiven
        ELSE TermSet(LowerStr(example[1].reference)) # {} /\ ~DefaultGiven

C18_Witness ==
    /\ AnswerEvaluated
    /\ example[1].reference = EVALUATION_EXAMPLES[StrategiesExample].reference
    /\ run[1].answer = KB_answer["strategies"]
    /\ DefaultGiven


----------------------------------------------------------------------------
(* Claims about the two phases of query *)

\* what a pipeline returns that matches once and takes answer, sources and
\* documents from that one record
SingleMatchEnvelope(kb, h, q) ==
    LET m == find_best_match(kb, h, q)
    IN  [question |-> q,
         answer |-> m.result.answer,
         sources |-> m.lists[m.result.sources],
         num_docs_retrieved |-> Len(m.result.retrieved_docs),
         retrieved_contexts |-> PageContents(m.result.retrieved_docs)]

\* the records an envelope can be taken from: those of the knowledge base
\* and the fallback
Records ==
    {[answer |-> KB_answer[k], sources |-> KB_sources[k],
      retrieved_docs |-> KB_retrieved_docs[k]] : k \in DOMAIN KB_answer}
      \cup {[answer |-> FallbackAnswer, sources |-> <<"moems_general">>,
             retrieved_docs |-> FallbackDocs]}

\* C19: matching in each phase gives what matching once would give: every
\* returned dictionary equals that of the single-match pipeline, so that its
\* answer, its sources and its contexts come from one and the same record.
C19_DoubleMatchEquivalent ==
    envelope # None =>
        /\ Held = SingleMatchEnvelope(knowledge_base, lists, envelope[1].question)
        /\ \E r \in Records :
             /\ Held.answer = r.answer
             /\ Held.sources = r.sources
             /\ Held.retrieved_contexts = PageContents(r.retrieved_docs)

C19_Witness ==
    /\ envelope # None
    /\ envelope[1].question = "What is the scoring structure?"
    /\ Held.answer = KB_answer["structure"]
    /\ Held.sources = KB_sources["structure"]
    /\ Held.retrieved_contexts = PageContents(KB_retrieved_docs["structure"])

\* the calls of one complete query, in order
FullTrace ==
    <<"moems_agent_query",
      "retrieve_documents", "find_best_match", "/find_best_match",
      "/retrieve_documents",
      "generate_answer", "find_best_match", "/find_best_match",
      "/generate_answer",
      "/moems_agent_query">>

\* the number of times x occurs in seq
Count(seq, x) == Cardinality({i \in DOMAIN seq : seq[i] = x})

\* x occurs in seq
Has(seq, x) == \E i \in DOMAIN seq : seq[i] = x

IsPrefix(a, b) == Len(a) <= Len(b) /\ a = SubSeq(b, 1, Len(a))

\* C20: a query runs its two phases in a fixed order.  The retrieve phase
\* has started and returned, with one call of the router, before the generate
\* phase starts; the generate phase makes one further call of the router; the
\* dictionary is returned only after both phases have returned, the router
\* having been called exactly twice.
C20_TwoPhasesInOrder ==
    /\ IsPrefix(trace, FullTrace)
    /\ pc = "retrieve" =>
         ~Has(trace, "retrieve_documents") /\ ~Has(trace, "generate_answer")
    /\ pc = "generate" =>
         /\ Has(trace, "/retrieve_documents")
         /\ ~Has(trace, "generate_answer")
         /\ Count(trace, "find_best_match") = 1
    /\ pc = "assemble" =>
         /\ Has(trace, "/generate_answer")
         /\ ~Has(trace, "/moems_agent_query")
         /\ Count(trace, "find_best_match") = 2
    /\ envelope # None =>
         /\ trace = FullTrace
         /\ Count(trace, "find_best_match") = 2
         /\ Count(trace, "/retrieve_documents") = 1
         /\ Count(trace, "/generate_answer") = 1

C20_Witness ==
    /\ envelope # None
    /\ envelope[1].question = "How is MOEMS scored?"
    /\ last = "returned"
    /\ trace = FullTrace


----------------------------------------------------------------------------
(* Agents with and without the tracing client *)

DEMO_QUESTIONS ==
    <<"What is MOEMS?",
      "What is the structure of a MOEMS contest?",
      "Are calculators allowed in MOEMS contests?">>

\* the demo questions, one that fires two rules, one that fires none, and
\* the empty one
ProbeQuestions ==
    {DEMO_QUESTIONS[i] : i \in 1..Len(DEMO_QUESTIONS)}
      \cup {"What is the scoring structure?", "What is the weather today?", ""}

\* agent = MOEMSAgent(): the caller replaces its agent by a new one, built
\* with or without LANGCHAIN_API_KEY, over the same module-level
\* KNOWLEDGE_BASE
Construct ==
    /\ Free
    /\ \E c \in BOOLEAN : client' = c
    /\ knowledge_base' = KNOWLEDGE_BASE
    /\ UNCHANGED <<scripts, threads, lists, pc, question, retrieval_result, answer,
                   envelope, last, log, run, example, evaluation, trace>>

NextClients ==
    \/ Construct
    \/ Len(log) < MaxQueries /\ Call(ProbeQuestions)
    \/ Retrieve
    \/ Generate
    \/ Return(TRUE)
    \/ Forget

\* up to MaxQueries queries, each put to an agent with or without a client
SpecClients == Init /\ [][NextClients]_vars

\* C16: whether the agent has a client does not influence what query
\* returns: two queries with the same question, put to agents of which one
\* has a client and the other has none, return the same question, answer,
\* sources, number of documents and contexts.
C16_ClientIndependent ==
    \A i, j \in DOMAIN log :
        log[i].question = log[j].question =>
            /\ log[i].answer = log[j].answer
            /\ log[i].sources = log[j].sources
            /\ log[i].num_docs_retrieved = log[j].num_docs_retrieved
            /\ log[i].retrieved_contexts = log[j].retrieved_contexts

C16_Witness ==
    /\ Len(log) >= 2
    /\ log[1].client = TRUE
    /\ log[2].client = FALSE
    /\ log[1].question = "What is MOEMS?"
    /\ log[2].question = "What is MOEMS?"
    /\ log[1].answer = log[2].answer
    /\ log[1].answer = KB_answer["what is moems"]


----------------------------------------------------------------------------
(* Concurrent callers of one agent and of the evaluators, without locks *)

\* the list objects named by the knowledge base and by the callers th
ThreadRoots(kb, th) ==
    UNION {Roots(kb, th[t].retrieval_result, th[t].envelope) : t \in DOMAIN th}

\* what predict returns for an example: answer and contexts of the query
PredictedRun(x) ==
    LET e == SingleMatchEnvelope(KNOWLEDGE_BASE, KNOWLEDGE_BASE_lists, x.question)
    IN  [answer |-> e.answer, contexts |-> e.retrieved_contexts]

\* the questions of concurrent callers: one of the examples, and one that
\* fires no rule
ConcurrentQuestions == {"What is MOEMS?", "What is the weather today?"}

\* the examples whose question is one of these
ProbeExamples ==
    {EVALUATION_EXAMPLES[i] : i \in {j \in 1..Len(EVALUATION_EXAMPLES) :
                                       EVALUATION_EXAMPLES[j].question \in ConcurrentQuestions}}

\* thread t has no invocation running and holds no result
ThreadFree(t) ==
    /\ threads[t].pc = "idle"
    /\ threads[t].envelope = None
    /\ threads[t].run = None

\* thread t calls agent.query(q)
T_Call(t) ==
    /\ ThreadFree(t)
    /\ \E q \in ConcurrentQuestions :
         threads' = [threads EXCEPT ![t] =
                       [IdleThread EXCEPT !.pc = "retrieve", !.question = Some(q)]]
    /\ UNCHANGED <<scripts, client, knowledge_base, lists, pc, question, retrieval_result,
                   answer, envelope, last, log, run, example, evaluation, trace>>

\* thread t, in query: retrieval_result = self._retrieve(question)
T_Retrieve(t) ==
    /\ threads[t].pc = "retrieve"
    /\ LET r == retrieve(knowledge_base, lists, threads[t].question[1])
       IN  IF r.raised
             THEN /\ threads' = [threads EXCEPT ![t] =
                                   [IdleThread EXCEPT !.last = "raised"]]
                  /\ UNCHANGED lists
             ELSE /\ threads' = [threads EXCEPT ![t].pc = "generate",
                                                ![t].retrieval_result = Some(r.result)]
                  /\ lists' = r.lists
    /\ UNCHANGED <<scripts, client, knowledge_base, pc, question, retrieval_result,
                   answer, envelope, last, log, run, example, evaluation, trace>>

\* thread t, in query: answer = self._generate(question, retrieved_docs)
T_Generate(t) ==
    /\ threads[t].pc = "generate"
    /\ LET g == generate(knowledge_base, lists, threads[t].question[1],
                         threads[t].retrieval_result[1].retrieved_docs)
           th == IF g.raised
                 THEN [threads EXCEPT ![t] = [IdleThread EXCEPT !.last = "raised"]]
                 ELSE [threads EXCEPT ![t].pc = "assemble",
                                      ![t].answer = Some(g.result)]
       IN  /\ threads' = th
           /\ lists' = Collect(lists, ThreadRoots(knowledge_base, th))
    /\ UNCHANGED <<scripts, client, knowledge_base, pc, question, retrieval_result,
                   answer, envelope, last, log, run, example, evaluation, trace>>

\* thread t, in query: the dictionary is built and returned
T_Return(t) ==
    /\ threads[t].pc = "assemble"
    /\ LET c == NewRef(lists)
           e == Envelope(threads[t].question[1], threads[t].answer[1],
                         threads[t].retrieval_result[1], c)
           h == Alloc(lists, c,
                      PageContents(threads[t].retrieval_result[1].retrieved_docs))
           th == [threads EXCEPT ![t] =
                    [IdleThread EXCEPT !.envelope = Some(e), !.last = "returned"]]
       IN  /\ threads' = th
           /\ lists' = Collect(h, ThreadRoots(knowledge_base, th))
    /\ UNCHANGED <<scripts, client, knowledge_base, pc, question, retrieval_result,
                   answer, envelope, last, log, run, example, evaluation, trace>>

\* thread t calls an evaluator (name) on the predicted run of an example
T_ScoreCall(t, name) ==
    /\ ThreadFree(t)
    /\ \E x \in ProbeExamples :
         threads' = [threads EXCEPT ![t] =
                       [IdleThread EXCEPT !.pc = name,
                                          !.run = Some(PredictedRun(x)),
                                          !.example = Some(x)]]
    /\ UNCHANGED <<scripts, client, knowledge_base, lists, pc, question, retrieval_result,
                   answer, envelope, last, log, run, example, evaluation, trace>>

\* the evaluator thread t is in returns o
T_Scored(t, o) ==
    /\ threads' = [threads EXCEPT
                     ![t].pc = "idle",
                     ![t].evaluation = IF o.raised THEN None ELSE Some(o.result),
                     ![t].last = IF o.raised THEN "raised" ELSE "returned"]
    /\ UNCHANGED <<scripts, client, knowledge_base, lists, pc, question, retrieval_result,
                   answer, envelope, last, log, run, example, evaluation, trace>>

\* thread t, in answer_correctness_evaluator: the dictionary is returned
T_ScoreAnswerReturn(t) ==
    /\ threads[t].pc = "answer_correctness"
    /\ T_Scored(t, answer_correctness_evaluator(threads[t].run[1],
                                                threads[t].example[1]))

\* thread t, in context_relevancy_evaluator: the dictionary is returned
T_ScoreContextReturn(t) ==
    /\ threads[t].pc = "context_relevancy"
    /\ T_Scored(t, context_relevancy_evaluator(threads[t].run[1],
                                               threads[t].example[1]))

\* thread t lets go of the result it holds
T_Forget(t) ==
    /\ threads[t].pc = "idle"
    /\ threads[t].envelope # None \/ threads[t].run # None
    /\ LET th == [threads EXCEPT ![t] = IdleThread]
       IN  /\ threads' = th
           /\ lists' = Collect(lists, ThreadRoots(knowledge_base, th))
    /\ UNCHANGED <<scripts, client, knowledge_base, pc, question, retrieval_result,
                   answer, envelope, last, log, run, example, evaluation, trace>>

NextConcurrent ==
    \E t \in Threads :
        \/ T_Call(t)
        \/ T_Retrieve(t)
        \/ T_Generate(t)
        \/ T_Return(t)
        \/ T_ScoreCall(t, "answer_correctness")
        \/ T_ScoreAnswerReturn(t)
        \/ T_ScoreCall(t, "context_relevancy")
        \/ T_ScoreContextReturn(t)
        \/ T_Forget(t)

\* MaxThreads callers whose invocations interleave step by step
SpecConcurrent == Init /\ [][NextConcurrent]_vars

\* the score is the one the answer evaluator gives alone for answer a and
\* reference ref
AnswerScoreAlone(score, a, ref) ==
    LET T == TermSet(LowerStr(ref))
    IN  IF T = {} THEN score = Frac(7, 10)
        ELSE /\ score[2] > 0
             /\ score[1] * Cardinality(T)
                  = Cardinality(Matched(T, LowerStr(a))) * score[2]

\* the score is the one the context evaluator gives alone for question q
\* and contexts cs
ContextScoreAlone(score, q, cs) ==
    IF cs = <<>> THEN score = Frac(0, 1)
    ELSE IsMean(score, TokensQ(LowerStr(q)), cs)

\* C17: whatever the interleaving of concurrent invocations of query and of
\* the two evaluators, none raises, each holds on return the result it gets
\* when run alone, and the knowledge base and its lists are never written.
C17_ConcurrentAsAlone ==
    /\ knowledge_base = KNOWLEDGE_BASE
    /\ \A r \in KBRefs(knowledge_base) : lists[r] = KNOWLEDGE_BASE_lists[r]
    /\ \A t \in Threads :
         /\ threads[t].last # "raised"
         /\ threads[t].envelope # None =>
              Seen(lists, threads[t].envelope[1])
                = SingleMatchEnvelope(KNOWLEDGE_BASE, KNOWLEDGE_BASE_lists,
                                      threads[t].envelope[1].question)
         /\ threads[t].evaluation # None =>
              IF threads[t].evaluation[1].key = "answer_correctness"
              THEN AnswerScoreAlone(threads[t].evaluation[1].score,
                                    threads[t].run[1].answer,
                                    threads[t].example[1].reference)
              ELSE ContextScoreAlone(threads[t].evaluation[1].score,
                                     threads[t].example[1].question,
                                     threads[t].run[1].contexts)

\* two queries with the same question are in flight at once, one about to
\* return and one between its phases, while nothing has been written
C17_Witness ==
    /\ threads[1].pc = "assemble"
    /\ threads[1].question = Some("What is MOEMS?")
    /\ threads[1].answer = Some(KB_answer["what is moems"])
    /\ threads[2].pc = "generate"
    /\ threads[2].question = Some("What is MOEMS?")
    /\ lists = KNOWLEDGE_BASE_lists

\* C17, a second case: an evaluator has returned while a query is running
C17_WitnessEvaluator ==
    /\ threads[1].evaluation # None
    /\ threads[1].evaluation[1].key = "context_relevancy"
    /\ threads[2].pc = "generate"


----------------------------------------------------------------------------
(* Bounds on what the evaluators return *)

\* C21: for every produced answer and reference, the key terms of the
\* reference are at most 8 and no term is named twice, the number of terms
\* matched is between 0 and the number of terms, and the score lies in [0,1];
\* the comment shows the matched and the total number the score is made of.
C21_AnswerScoreBounds ==
    AnswerEvaluated =>
        LET key_terms == KeyTerms(LowerStr(example[1].reference))
            matches == CountIn(key_terms, LowerStr(run[1].answer))
            score == evaluation[1].score
        IN  /\ \A i, j \in DOMAIN key_terms : i # j => key_terms[i] # key_terms[j]
            /\ Len(key_terms) <= 8
            /\ 0 <= matches /\ matches <= Len(key_terms)
            /\ score[2] > 0
            /\ 0 <= score[1] /\ score[1] <= score[2]
            /\ \E total \in 0..8 : \E matched \in 0..total :
                 IF total = 0
                 THEN evaluation[1].comment = "Matched N/A/N/A key terms from reference"
                 ELSE /\ evaluation[1].comment
                           = MatchedComment(ToString(matched), ToString(total))
                      /\ score[1] * total = matched * score[2]

\* a reference naming all eight terms, of which the answer has one
C21_Witness ==
    /\ AnswerEvaluated
    /\ example[1].reference = AllMarkersReference
    /\ run[1].answer = "MOEMS"
    /\ evaluation[1].score = Frac(1, 8)
    /\ evaluation[1].comment = "Matched 1/8 key terms from reference"

\* the fraction f lies in [0,1]
InUnit(f) == f[2] > 0 /\ 0 <= f[1] /\ f[1] <= f[2]

\* C22: for every question and list of contexts, the relevance of every
\* context lies in [0,1], also when the question repeats a word, and so does
\* the score; when no word of the question is kept and there are contexts,
\* the score is exactly 0.5.
C22_ContextScoreBounds ==
    ContextEvaluated =>
        LET q == LowerStr(example[1].question)
            cs == run[1].contexts
        IN  /\ \A i \in 1..Len(cs) :
                 /\ ~Relevance(q, cs[i]).raised
                 /\ InUnit(Relevance(q, cs[i]).result)
            /\ InUnit(evaluation[1].score)
            /\ (TokensQ(q) = <<>> /\ cs # <<>>) =>
                 2 * evaluation[1].score[1] = evaluation[1].score[2]

\* the question repeats a word and the context has it: two of three words
C22_Witness ==
    /\ ContextEvaluated
    /\ example[1].question = "time time students"
    /\ run[1].contexts = <<KB_retrieved_docs["time"][1].page_content>>
    /\ evaluation[1].score = Frac(2, 3)

\* C22, a second case: no word is kept and the score is 0.5
C22_WitnessNoWords ==
    /\ ContextEvaluated
    /\ example[1].question = ""
    /\ Len(run[1].contexts) = 2
    /\ evaluation[1].comment = "Average relevancy across 2 contexts: 0.50"


----------------------------------------------------------------------------
(* The evaluation dataset and the evaluation run *)

\* the name of the evaluation dataset
DATASET_NAME == "moems-qa-evaluation"

\* what the service answers to create_dataset for a name it already has
ConflictMessage == "Conflict for /datasets. Dataset with this name already exists."

\* what a call of the service raises when it cannot be reached
ConnectionMessage == "Connection error caused failure to POST /datasets"

\* how a call of the service can fail for a reason of its own: not at all,
\* or with a connection error
Faults == {None, Some(ConnectionMessage)}

\* calls of create_evaluation_dataset looked at
MaxDatasetCalls == 2

\* client.create_dataset(dataset_name=name): the dataset made, or the
\* exception raised; the service rejects a name it already has
create_dataset(svc, name, fault) ==
    IF fault # None
    THEN [raised |-> TRUE, message |-> fault[1], service |-> svc]
    ELSE IF svc # None /\ svc[1].name = name
    THEN [raised |-> TRUE, message |-> ConflictMessage, service |-> svc]
    ELSE [raised |-> FALSE, message |-> "",
          service |-> Some([name |-> name, examples |-> <<>>])]

\* the example create_example stores for the i-th evaluation example
StoredExample(i) ==
    [inputs |-> [question |-> EVALUATION_EXAMPLES[i].question],
     outputs |-> [reference |-> EVALUATION_EXAMPLES[i].reference]]

\* the examples of dataset d followed by the first n evaluation examples
WithExamples(d, n) ==
    [d EXCEPT !.examples = @ \o [i \in 1..n |-> StoredExample(i)]]

\* what create_evaluation_dataset prints for the exception e of its body
DatasetMessage(e) ==
    IF e = None THEN "Created dataset"
    ELSE IF Contains(LowerStr(e[1]), "already exists")
    THEN "Using existing dataset"
    ELSE "Could not create dataset"

\* mutant: told that the dataset exists, the function adds the examples to it
create_evaluation_dataset_filling_existing(svc, fault, stored) ==
    LET made == create_dataset(svc, DATASET_NAME, fault)
        e == IF made.raised THEN Some(made.message)
             ELSE IF stored < Len(EVALUATION_EXAMPLES)
             THEN Some(ConnectionMessage) ELSE None
        filled == IF ~made.raised THEN Some(WithExamples(made.service[1], stored))
                  ELSE IF Contains(LowerStr(made.message), "already exists")
                  THEN Some(WithExamples(svc[1], stored))
                  ELSE svc
    IN  [raised |-> FALSE, result |-> DATASET_NAME,
         printed |-> DatasetMessage(e), service |-> filled]

\* create_evaluation_dataset(client): what it returns and what the service
\* holds afterwards.  fault is how create_dataset fails by itself, stored
\* the number of create_example calls that return before one raises (all
\* return when stored is the number of examples).  Whatever the body raises
\* is caught by the except clause, which prints and goes on to the return.
create_evaluation_dataset(svc, fault, stored) ==
    LET made == create_dataset(svc, DATASET_NAME, fault)
        e == IF made.raised THEN Some(made.message)
             ELSE IF stored < Len(EVALUATION_EXAMPLES)
             THEN Some(ConnectionMessage) ELSE None
        filled == IF made.raised THEN svc
                  ELSE Some(WithExamples(made.service[1], stored))
    IN  [raised |-> FALSE, result |-> DATASET_NAME,
         printed |-> DatasetMessage(e), service |-> filled]

\* predict(inputs) of run_evaluations: the answer and contexts of the agent
predict(inputs) ==
    LET result == SingleMatchEnvelope(knowledge_base, lists, inputs.question)
    IN  [answer |-> result.answer, contexts |-> result.retrieved_contexts]

\* the score of one example of the dataset under the evaluator of that name
Row(x, evaluator) ==
    LET run_ == predict(x.inputs)
        example_ == [question |-> x.inputs.question,
                     reference |-> x.outputs.reference]
        o == IF evaluator = "answer_correctness"
             THEN answer_correctness_evaluator(run_, example_)
             ELSE context_relevancy_evaluator(run_, example_)
    IN  IF o.raised THEN [question |-> x.inputs.question, error |-> TRUE,
                          score |-> Frac(0, 1)]
        ELSE [question |-> x.inputs.question, error |-> FALSE,
              score |-> o.result.score]

\* evaluate(predict, data=name, evaluators=[evaluator]): the rows of the
\* experiment, or an exception when the service has no dataset of that
\* name or fails by itself
evaluate(svc, name, evaluator, fault) ==
    IF fault # None THEN [raised |-> TRUE, result |-> fault[1]]
    ELSE IF svc = None \/ Some(svc[1].name) # name
    THEN [raised |-> TRUE, result |-> "Dataset not found"]
    ELSE [raised |-> FALSE,
          result |-> [i \in 1..Len(svc[1].examples) |->
                        Row(svc[1].examples[i], evaluator)]]

\* the dictionary d with key k set to value v
SetItem(d, k, v) == [j \in DOMAIN d \cup {k} |-> IF j = k THEN v ELSE d[j]]

\* the first try statement of run_evaluations: results["eval1"] is the
\* result of evaluate, or None when it raised
Evaluation1(results, o) ==
    IF o.raised THEN SetItem(results, "eval1", None)
    ELSE SetItem(results, "eval1", Some(o.result))

\* mutant: a failure of the second evaluation starts the dictionary afresh
Evaluation2_alone_on_failure(results, o) ==
    IF o.raised THEN SetItem(<<>>, "eval2", None)
    ELSE SetItem(results, "eval2", Some(o.result))

\* the second try statement of run_evaluations
Evaluation2(results, o) ==
    IF o.raised THEN SetItem(results, "eval2", None)
    ELSE SetItem(results, "eval2", Some(o.result))

\* main calls create_evaluation_dataset(client)
D_Create ==
    /\ Len(created) < MaxDatasetCalls
    /\ harness.pc \in {"idle", "returned"}
    /\ \E fault \in Faults : \E stored \in 0..Len(EVALUATION_EXAMPLES) :
         LET r == create_evaluation_dataset(service, fault, stored)
         IN  /\ service' = r.service
             /\ created' = Append(created, [raised |-> r.raised,
                                            result |-> r.result,
                                            printed |-> r.printed])
    /\ UNCHANGED <<harness, returned, session, threads, client, knowledge_base,
                   lists, pc, question, retrieval_result, answer, envelope,
                   last, log, run, example, evaluation, trace>>

\* main calls run_evaluations(agent, dataset_name) with the name returned
H_Call ==
    /\ harness.pc \in {"idle", "returned"}
    /\ created # <<>>
    /\ returned' = None
    /\ harness' = [pc |-> "evaluation1",
                   dataset_name |-> Some(created[Len(created)].result),
                   results |-> <<>>,
                   evaluated |-> <<>>]
    /\ UNCHANGED <<service, created, session, threads, client,
                   knowledge_base, lists, pc, question, retrieval_result,
                   answer, envelope, last, log, run, example, evaluation, trace>>

\* evaluation 1: factual accuracy
H_Evaluation1 ==
    /\ harness.pc = "evaluation1"
    /\ \E fault \in Faults :
         LET o == evaluate(service, harness.dataset_name,
                           "answer_correctness", fault)
         IN  harness' = [harness EXCEPT !.pc = "evaluation2",
                                        !.results = Evaluation1(@, o),
                                        !.evaluated = Append(@, o)]
    /\ UNCHANGED <<service, created, returned, session, threads, client,
                   knowledge_base, lists, pc, question, retrieval_result,
                   answer, envelope, last, log, run, example, evaluation, trace>>

\* evaluation 2: context utilization
H_Evaluation2 ==
    /\ harness.pc = "evaluation2"
    /\ \E fault \in Faults :
         LET o == evaluate(service, harness.dataset_name,
                           "context_relevancy", fault)
         IN  harness' = [harness EXCEPT !.pc = "return",
                                        !.results = Evaluation2(@, o),
                                        !.evaluated = Append(@, o)]
    /\ UNCHANGED <<service, created, returned, session, threads, client,
                   knowledge_base, lists, pc, question, retrieval_result,
                   answer, envelope, last, log, run, example, evaluation, trace>>

\* return results
H_Return ==
    /\ harness.pc = "return"
    /\ returned' = Some([raised |-> FALSE, result |-> harness.results])
    /\ harness' = [harness EXCEPT !.pc = "returned"]
    /\ UNCHANGED <<service, created, session, threads, client,
                   knowledge_base, lists, pc, question, retrieval_result,
                   answer, envelope, last, log, run, example, evaluation, trace>>

NextEvaluationRun ==
    \/ D_Create
    \/ H_Call
    \/ H_Evaluation1
    \/ H_Evaluation2
    \/ H_Return

SpecEvaluationRun == InitEval /\ [][NextEvaluationRun]_vars


----------------------------------------------------------------------------
(* Claims about the evaluation run and its dataset *)

\* the value stored for an evaluate call that did o
Stored(o) == IF o.raised THEN None ELSE Some(o.result)

\* C23: run_evaluations never raises and returns a dictionary with both
\* keys eval1 and eval2.  When evaluate fails in evaluation 1, eval1 is None
\* and evaluation 2 is still attempted; when it fails in evaluation 2, eval2
\* is None and the eval1 already stored is what it was.
C23_BothKeysAlways ==
    /\ harness.pc \in {"return", "returned"} =>
         /\ Len(harness.evaluated) = 2
         /\ DOMAIN harness.results = {"eval1", "eval2"}
         /\ harness.results["eval1"] = Stored(harness.evaluated[1])
         /\ harness.results["eval2"] = Stored(harness.evaluated[2])
    /\ harness.pc = "evaluation2" =>
         /\ DOMAIN harness.results = {"eval1"}
         /\ harness.results["eval1"] = Stored(harness.evaluated[1])
    /\ returned # None =>
         /\ harness.pc = "returned"
         /\ ~returned[1].raised
         /\ returned[1].result = harness.results

\* evaluation 1 scored the eight examples and evaluation 2 failed
C23_Witness ==
    /\ returned # None
    /\ ~harness.evaluated[1].raised
    /\ harness.evaluated[2].raised
    /\ returned[1].result["eval1"] # None
    /\ Len(returned[1].result["eval1"][1]) = Len(EVALUATION_EXAMPLES)
    /\ returned[1].result["eval2"] = None

\* C23, a second case: evaluation 1 failed and evaluation 2 was made
C23_WitnessFirstFails ==
    /\ returned # None
    /\ harness.evaluated[1].raised
    /\ ~harness.evaluated[2].raised
    /\ returned[1].result["eval1"] = None
    /\ returned[1].result["eval2"] # None

\* the examples the dataset is to hold
ReferenceExamples == [i \in 1..Len(EVALUATION_EXAMPLES) |-> StoredExample(i)]

\* C24: whenever create_evaluation_dataset has returned, the service has
\* the dataset of the name returned, and it holds the 8 evaluation questions
\* with their references, whichever calls of the service raised.
C24_ReturnedDatasetReady ==
    created # <<>> =>
        /\ service # None
        /\ service[1].name = created[Len(created)].result
        /\ service[1].examples = ReferenceExamples

\* C25: create_evaluation_dataset never raises and always returns
\* DATASET_NAME; a dataset that exists is given no example, and no dataset
\* ever holds an example twice.
C25_NoExampleAddedTwice ==
    /\ [](/\ \A i \in 1..Len(created) :
               ~created[i].raised /\ created[i].result = DATASET_NAME
          /\ service # None =>
               \A i, j \in 1..Len(service[1].examples) :
                   i # j => service[1].examples[i] # service[1].examples[j])
    /\ [][service # None => service' = service]_vars

\* a second call found the complete dataset and left it alone
C25_Witness ==
    /\ Len(created) = 2
    /\ created[1].printed = "Created dataset"
    /\ created[2].printed = "Using existing dataset"
    /\ service # None
    /\ service[1].examples = ReferenceExamples


----------------------------------------------------------------------------
(* The interactive session *)

\* passes of the loop looked at
MaxInputs == 3

\* the lines input() can return
InputLines ==
    {"", "  ", "quit", " QUIT ", "Exit", "q", "eval", "Evaluation\t",
     "What is MOEMS?", " How is MOEMS scored? ", "quit now"}

\* what input() does: it returns a line, or raises
Reads ==
    {[raised |-> "", line |-> Some(l)] : l \in InputLines}
      \cup {[raised |-> e, line |-> None] : e \in {"KeyboardInterrupt", "EOFError"}}

\* what agent.query does when called: it returns, or raises
Does == {"returned", "Exception", "KeyboardInterrupt"}

\* str.strip(): s without its leading and trailing whitespace
Strip(s) ==
    LET keep == {i \in 1..Len(s) : ~IsSpace(SubSeq(s, i, i))}
    IN  IF keep = {} THEN ""
        ELSE SubSeq(s, CHOOSE i \in keep : \A j \in keep : i <= j,
                       CHOOSE i \in keep : \A j \in keep : j <= i)

\* the words that end the session
ExitCommands == {"quit", "exit", "q"}

\* the words that end the session for the evaluation
EvalCommands == {"eval", "evaluation"}

\* user_question is passed to agent.query
Queries(user_question) ==
    /\ user_question # ""
    /\ LowerStr(user_question) \notin ExitCommands
    /\ LowerStr(user_question) \notin EvalCommands

\* what one pass records: the line read, the question passed to agent.query
\* if any, what the query did, and query_count at the end of the pass
Pass(read, queried, does, query_count, ended) ==
    [line |-> read.line, read |-> read.raised, queried |-> queried,
     does |-> does, query_count |-> query_count, ended |-> ended]

\* mutant: query_count is incremented before the query is made
Iterate_counting_first(query_count, read, does) ==
    IF read.raised = "KeyboardInterrupt"
    THEN Pass(read, None, "none", query_count, TRUE)
    ELSE IF read.raised # ""
    THEN Pass(read, None, "none", query_count, FALSE)
    ELSE LET user_question == Strip(read.line[1])
         IN  IF user_question = ""
             THEN Pass(read, None, "none", query_count, FALSE)
             ELSE IF LowerStr(user_question) \in ExitCommands
             THEN Pass(read, None, "none", query_count, TRUE)
             ELSE IF LowerStr(user_question) \in EvalCommands
             THEN Pass(read, None, "none", query_count, TRUE)
             ELSE Pass(read, Some(user_question), does, query_count + 1,
                       does = "KeyboardInterrupt")

\* one pass of the while loop of run_interactive_mode: the try statement
\* with its two except clauses.  does is what agent.query does if called.
Iterate(query_count, read, does) ==
    IF read.raised = "KeyboardInterrupt"
    THEN Pass(read, None, "none", query_count, TRUE)
    ELSE IF read.raised # ""
    THEN Pass(read, None, "none", query_count, FALSE)
    ELSE LET user_question == Strip(read.line[1])
         IN  IF user_question = ""
             THEN Pass(read, None, "none", query_count, FALSE)
             ELSE IF LowerStr(user_question) \in ExitCommands
             THEN Pass(read, None, "none", query_count, TRUE)
             ELSE IF LowerStr(user_question) \in EvalCommands
             THEN Pass(read, None, "none", query_count, TRUE)
             ELSE IF does = "returned"
             THEN Pass(read, Some(user_question), does, query_count + 1, FALSE)
             ELSE IF does = "KeyboardInterrupt"
             THEN Pass(read, Some(user_question), does, query_count, TRUE)
             ELSE Pass(read, Some(user_question), does, query_count, FALSE)

\* main calls run_interactive_mode(agent)
S_Enter ==
    /\ session.pc = "idle"
    /\ session' = [session EXCEPT !.pc = "loop", !.query_count = 0]
    /\ UNCHANGED <<service, created, harness, returned, threads, client,
                   knowledge_base, lists, pc, question, retrieval_result,
                   answer, envelope, last, log, run, example, evaluation, trace>>

\* one pass of the loop; after a break the function returns query_count
S_Iterate ==
    /\ session.pc = "loop"
    /\ Len(session.inputs) < MaxInputs
    /\ \E read \in Reads :
         \E does \in IF read.raised = "" /\ Queries(Strip(read.line[1]))
                     THEN Does ELSE {"none"} :
           LET p == Iterate(session.query_count, read, does)
           IN  session' = [pc |-> IF p.ended THEN "returned" ELSE "loop",
                           query_count |-> p.query_count,
                           inputs |-> Append(session.inputs, p),
                           result |-> IF p.ended THEN Some(p.query_count)
                                      ELSE None]
    /\ UNCHANGED <<service, created, harness, returned, threads, client,
                   knowledge_base, lists, pc, question, retrieval_result,
                   answer, envelope, last, log, run, example, evaluation, trace>>

NextInteractive ==
    \/ S_Enter
    \/ S_Iterate

SpecInteractive == InitEval /\ [][NextInteractive]_vars

\* pass p ended with a keyboard interrupt, at the prompt or in the query
Interrupted(p) == p.read = "KeyboardInterrupt" \/ p.does = "KeyboardInterrupt"

\* the number of passes among the first n whose query returned
QueriesReturned(n) ==
    Cardinality({i \in 1..n : session.inputs[i].does = "returned"})

\* what holds of the count whatever is taken for an empty input: it is the
\* number of queries that returned, each pass adds one exactly when its
\* query returned, and the function returns it
CountLaw ==
    LET ps == session.inputs
    IN  /\ session.query_count = QueriesReturned(Len(ps))
        /\ \A i \in 1..Len(ps) :
             ps[i].query_count = QueriesReturned(i - 1)
                                   + (IF ps[i].does = "returned" THEN 1 ELSE 0)
        /\ session.pc = "returned" => session.result = Some(session.query_count)
        /\ session.pc # "returned" => session.result = None

\* the line, as typed, is one of the five commands, in any case
IsCommandAsTyped(line) == LowerStr(line) \in ExitCommands \cup EvalCommands

\* the line without the whitespace around it is one of the five commands
IsCommand(line) == IsCommandAsTyped(Strip(line))

\* C26 as stated: the count is the number of non-empty, non-command inputs
\* whose query returned; empty inputs and raising queries change nothing and
\* do not end the loop; the loop ends exactly on the first input equal, in
\* any case, to one of the five commands, or on a keyboard interrupt, and
\* that input is not passed to the agent.
C26_CountAndEndAsTyped ==
    LET ps == session.inputs
        Ends(i) == \/ Interrupted(ps[i])
                   \/ ps[i].line # None /\ IsCommandAsTyped(ps[i].line[1])
    IN  /\ CountLaw
        /\ \A i \in 1..Len(ps) :
             /\ ps[i].does = "returned" =>
                  /\ ps[i].line # None
                  /\ ps[i].line[1] # ""
                  /\ ~IsCommandAsTyped(ps[i].line[1])
             /\ (ps[i].line # None
                   /\ (ps[i].line[1] = "" \/ IsCommandAsTyped(ps[i].line[1]))) =>
                  ps[i].queried = None
             /\ i < Len(ps) => ~Ends(i)
        /\ session.pc = "returned" <=> (ps # <<>> /\ Ends(Len(ps)))

\* C26, amended: the same, an input being empty or a command according to
\* what is left of it once the whitespace around it is removed
C26_CountAndEndStripped ==
    LET ps == session.inputs
        Ends(i) == \/ Interrupted(ps[i])
                   \/ ps[i].line # None /\ IsCommand(ps[i].line[1])
    IN  /\ CountLaw
        /\ \A i \in 1..Len(ps) :
             /\ ps[i].does = "returned" =>
                  /\ ps[i].line # None
                  /\ Strip(ps[i].line[1]) # ""
                  /\ ~IsCommand(ps[i].line[1])
                  /\ ps[i].queried = Some(Strip(ps[i].line[1]))
             /\ (ps[i].line # None
                   /\ (Strip(ps[i].line[1]) = "" \/ IsCommand(ps[i].line[1]))) =>
                  ps[i].queried = None
             /\ i < Len(ps) => ~Ends(i)
        /\ session.pc = "returned" <=> (ps # <<>> /\ Ends(Len(ps)))

\* a query that raised, a query that returned, then quit between spaces:
\* the function returned 1
C26_Witness ==
    /\ session.pc = "returned"
    /\ Len(session.inputs) = 3
    /\ session.inputs[1].does = "Exception"
    /\ session.inputs[2].does = "returned"
    /\ session.inputs[2].queried = Some("How is MOEMS scored?")
    /\ session.inputs[3].line = Some(" QUIT ")
    /\ session.result = Some(1)


====
